---- MODULE Spec2Model ----
(***************************************************************************)
(* Chunk subsystem of the voxel engine: the chunk lifecycle manager        *)
(* (src/src/ChunkManager.ts), the worker pool and its workers              *)
(* (src/src/LightingManager.ts, src/src/worldgen.worker.ts) and the        *)
(* terrain generator (src/src/WorldGenerator.ts, src/src/SeededRandom.ts). *)
(*                                                                         *)
(* Chunk space is explored along the x axis: a chunk position {x, y, z}    *)
(* has y = z = 0 and is written as its x coordinate, which is also the     *)
(* chunk key ("x,0,0").                                                    *)
(*                                                                         *)
(* Spec and FairSpec explore the manager over a generator whose promises   *)
(* settle in any order; SpecPool explores the worker pool, its workers and *)
(* the generator instances they hold.                                      *)
(***************************************************************************)
EXTENDS Integers, Sequences, FiniteSets, TLC

----------------------------------------------------------------------------
(* Bounds of the explored behaviours *)

\* viewpoint chunk coordinates are 0..MaxCoord
MaxCoord == 2
\* updateChunks calls that may be awaiting their loads at the same time
MaxTicks == 2
\* forceLoadChunk calls that may be awaiting their load at the same time
MaxForce == 1
\* meshes and generations that may exist for one chunk key at the same time
MaxMeshes == 2
\* forceLoadChunk is called for the chunk coordinates 0..MaxForceCoord
MaxForceCoord == 0

\* ChunkManagerConfig of the explored manager (defaults in the source: 3 and 5)
renderDistance == 1
unloadDistance == 2

\* edge of a chunk in blocks (16 in the source)
CHUNK_SIZE == 2

\* workerCount of the explored pool (navigator.hardwareConcurrency || 4 in the source)
WorkerCount == 2
\* WorkerPool.generateChunk calls in a behaviour
MaxRequests == 3
\* WorkerPool.updateConfig calls in a behaviour
MaxUpdates == 1
\* Date.now() takes the values 0..MaxNow
MaxNow == 1
\* chunks are requested from the pool for the coordinates 0..MaxPoolCoord
MaxPoolCoord == 1

----------------------------------------------------------------------------
(* Program constants *)

\* SeededRandom.next: `const a`, `const c`
LCG_A == 1103515245
LCG_C == 12345

\* enum BlockType
AIR == 0
GRASS == 1
DIRT == 2
STONE == 3
BEDROCK == 4
SAND == 5
WATER == 6

----------------------------------------------------------------------------
(* State *)

VARIABLES
  chunks,                   \* ChunkManager.chunks: key -> Chunk (position, mesh)
  loadingChunks,            \* ChunkManager.loadingChunks: set of keys
  scene,                    \* THREE.Scene children added by the manager: set of meshes
  lastPlayerChunkPosition,  \* <<>> for null, <<p>> for a position
  gens,                     \* generateChunk promises awaited by loadChunk, not yet settled
  ticks,                    \* updateChunks calls suspended at `await loadChunksAroundPlayer`
  unhandled,                \* TRUE once an updateChunks/forceLoadChunk promise has rejected
  failed,                   \* keys whose last settled generation was rejected (console.error)
  frame,                    \* parity of the number of animation frames (FairSpec only)
  now,                      \* Date.now() on the main thread
  nextWorkerIndex,          \* WorkerPool.nextWorkerIndex
  pendingRequests,          \* WorkerPool.pendingRequests: requestId -> promise
  promises,                 \* promises returned by WorkerPool.generateChunk, in call order
  inbox,                    \* per worker: messages posted to it, not yet handled
  generators,               \* per worker: WorldGenerator instances it created; the last
                            \* one is its `worldGenerator`; an instance is its config
  timers,                   \* per worker: setTimeout callbacks of generateChunk, in order
  outbox,                   \* per worker: messages it posted, not yet handled by the pool
  produced,                 \* history: every chunk a worker generated
  workers,                  \* this.workers.length: the workers the pool holds
  threw,                    \* history: every message whose handling threw in a worker
  chunkBlocks,              \* a Chunk on its own: Chunk.blocks
  chunkMesh,                \* a Chunk on its own: Chunk.mesh, <<>> for null
  worldGenerator,           \* a WorldGenerator on its own: its config
  generatedChunk,           \* the chunk its last generateChunk resolved with, <<>> before
  lightingConfig,           \* a LightingSystem on its own: LightingSystem.config
  lightSources,             \* LightingSystem.lightSources: the Map's values in insertion order
  sunLight,                 \* TRUE once LightingSystem.sunLight is set (null before)
  sunAngle,                 \* LightingSystem.sunAngle, in units of 2 * PI / 24000
  worldBlocks,              \* the block grid read through getBlockAt: site -> block type
  managerConfig,            \* a ChunkManager built from a given configuration: its config
  managedChunks,            \* the keys of its chunks
  managedCenter,            \* its lastPlayerChunkPosition: <<>> for null, <<p>> for a position
  tickLoaded,               \* history: the keys its last updateChunks call loaded
  tickUnloaded,             \* history: the keys its last updateChunks call unloaded
  flatChunks,               \* the column-chunk ChunkManager: chunks, key -> Chunk object
  flatLoading,              \* its loadingChunks: set of keys
  flatLoads,                \* its loadChunk calls awaiting generateChunk: their Chunk objects
  flatScene,                \* the Chunk objects whose mesh is a child of its scene
  flatRenderDistance,       \* its renderDistance
  flatRegen,                \* the Chunk objects its running regenerateAll has yet to rebuild
  spawnChunks,              \* findSpawnPosition: the chunk positions stored by its manager
  spawnSearch,              \* its loop variables [radius, angle, y]; <<>> when not running
  spawnResult,              \* <<>> before it returns, then the position returned
  noiseGenerator,           \* a WorldGenerator with simplex noise: [config, noise2D]
  noiseChunk,               \* <<>>, or <<chunk>>: the chunk it generated last
  blockLookup               \* <<>>, or the lookup made: [path, world, address]

mgrVars == <<chunks, loadingChunks, scene, lastPlayerChunkPosition, gens, ticks,
             unhandled, failed, frame>>

poolVars == <<now, nextWorkerIndex, pendingRequests, promises, inbox, generators,
              timers, outbox, produced, workers, threw>>

\* the objects explored on their own
lightVars == <<lightingConfig, lightSources, sunLight, sunAngle, worldBlocks>>
cfgVars == <<managerConfig, managedChunks, managedCenter, tickLoaded, tickUnloaded>>
flatVars == <<flatChunks, flatLoading, flatLoads, flatScene, flatRenderDistance,
              flatRegen>>
spawnVars == <<spawnChunks, spawnSearch, spawnResult>>
seedVars == <<noiseGenerator, noiseChunk>>
lookVars == <<blockLookup>>
unitVars == <<chunkBlocks, chunkMesh, worldGenerator, generatedChunk, lightVars,
              cfgVars, flatVars, spawnVars, seedVars, lookVars>>

vars == <<mgrVars, poolVars, unitVars>>

Coords == 0..MaxCoord
WorkerIds == 0..(WorkerCount - 1)
PoolPositions == 0..MaxPoolCoord
Keys == (0 - renderDistance)..(MaxCoord + renderDistance)
TickSlots == 1..MaxTicks
ForceCalls == 1..MaxForce
Resident == DOMAIN chunks

\* A Chunk object: its position and its mesh (<<>> is null)
NewChunk(position, mesh) == [position |-> position, mesh |-> <<mesh>>]

\* An in-flight generation: the key, the awaiting updateChunks call (0: forceLoadChunk)
\* and, for forceLoadChunk, which call
TickGen(k, s) == [key |-> k, tick |-> s, call |-> 0]
ForceGen(k, c) == [key |-> k, tick |-> 0, call |-> c]
GenSet == {TickGen(k, s) : k \in Keys, s \in TickSlots} \cup
          {ForceGen(k, c) : k \in 0..MaxForceCoord, c \in ForceCalls}

IdleTick == [active |-> FALSE, center |-> 0]

----------------------------------------------------------------------------
(* SeededRandom (src/src/SeededRandom.ts)                                  *)
(*                                                                         *)
(* JavaScript numbers are IEEE doubles. Values that exceed what TLC's      *)
(* integers hold are kept as 16-bit digits, least significant first, and   *)
(* the two roundings of `a * this.seed + c` to 53 significant bits are     *)
(* carried out on the digits.                                              *)

W16 == 2^16

Pow2(n) == 2^n

\* number of significant bits of n >= 0
RECURSIVE BitLength(_)
BitLength(n) == IF n = 0 THEN 0 ELSE 1 + BitLength(n \div 2)

\* ToInt32 of an integer 0 <= n < 2^31, as the 32-bit pattern <<low, high>>
ToInt32(n) == <<n % W16, (n \div W16) % W16>>

\* `hash = ((hash << 5) - hash + v) | 0` on a 32-bit pattern: 31 * hash + v modulo 2^32
HashStep(hash, v) ==
  LET low  == 31 * hash[1] + v
      high == 31 * hash[2] + (low \div W16)
  IN  <<low % W16, high % W16>>

\* Math.abs of the signed value of a 32-bit pattern, as digits (at most 2^31)
MathAbs(hash) ==
  IF hash[2] < W16 \div 2
    THEN hash
    ELSE <<(W16 - hash[1]) % W16, (W16 - 1 - hash[2]) + (IF hash[1] = 0 THEN 1 ELSE 0)>>

\* SeededRandom.fromCoordinates(baseSeed, x, y, z): the seed of the new generator
FromCoordinates(baseSeed, x, y, z) ==
  MathAbs(HashStep(HashStep(HashStep(ToInt32(baseSeed), x), y), z))

\* carries of a digit sequence propagated upwards (4 digits)
Carried(d) ==
  LET c1 == d[2] + (d[1] \div W16)
      c2 == d[3] + (c1 \div W16)
      c3 == d[4] + (c2 \div W16)
  IN  <<d[1] % W16, c1 % W16, c2 % W16, c3>>

\* a * seed for seed = <<low, high>>, exactly, as 4 digits
TimesA(seed) ==
  LET aLow  == LCG_A % W16
      aHigh == LCG_A \div W16
      p0 == aLow * seed[1]
      p1 == aHigh * seed[1]
      p2 == aLow * seed[2]
      p3 == aHigh * seed[2]
  IN  Carried(<<p0 % W16,
                (p0 \div W16) + (p1 % W16) + (p2 % W16),
                (p1 \div W16) + (p2 \div W16) + (p3 % W16),
                p3 \div W16>>)

\* the double nearest to a 4-digit integer below 2^63: round to 53 significant bits,
\* ties to even
RoundToDouble(d) ==
  LET e == 48 + BitLength(d[4]) - 53 IN
  IF e <= 0
    THEN d
    ELSE LET unit == Pow2(e)
             q    == d[1] \div unit
             r    == d[1] % unit
             up   == IF r * 2 > unit \/ (r * 2 = unit /\ q % 2 = 1) THEN 1 ELSE 0
         IN  Carried(<<(q + up) * unit, d[2], d[3], d[4]>>)

\* d + c for a 4-digit integer d, exactly
PlusC(d) == Carried(<<d[1] + LCG_C, d[2], d[3], d[4]>>)

\* d % m for m = 2^31: the low 31 bits
ModM(d) == (d[2] % (W16 \div 2)) * W16 + d[1]

\* SeededRandom.next(): `this.seed = (a * this.seed + c) % m`, the product and the
\* sum each rounded to a double; the result `this.seed / m` is returned as its
\* numerator, an integer below 2^31
SeededRandomNext(seed) == ModM(RoundToDouble(PlusC(RoundToDouble(TimesA(seed)))))

----------------------------------------------------------------------------
(* WorldGenerator (src/src/WorldGenerator.ts)                              *)
(*                                                                         *)
(* A configuration is [seed, seaLevel, terrainScale, terrainHeight] with   *)
(* integer seaLevel and terrainHeight; terrainScale is written as its      *)
(* reciprocal, one of 1, 2 and 4 (scale 1, 0.5 and 0.25), for which every  *)
(* floating-point operation of noise2D and getTerrainHeight is exact:      *)
(* noise sample points are multiples of 1/4.                               *)

\* DEFAULT_WORLD_CONFIG, with terrainScale 0.25 in the place of 0.05
DEFAULT_WORLD_CONFIG ==
  [seed |-> 12345, seaLevel |-> 5, terrainScale |-> 4, terrainHeight |-> 10]

\* `{ ...DEFAULT_WORLD_CONFIG, ...config }` for a partial configuration
NewWorldGenerator(config) ==
  [f \in DOMAIN DEFAULT_WORLD_CONFIG |->
     IF f \in DOMAIN config THEN config[f] ELSE DEFAULT_WORLD_CONFIG[f]]

\* setSeed(seed): `this.config.seed = seed`
SetSeed(config, seed) == [config EXCEPT !.seed = seed]

\* getRandomValue(x, y): numerator over 2^31 of the first value of a generator
\* seeded from the coordinates
GetRandomValue(config, x, y) ==
  SeededRandomNext(FromCoordinates(config.seed, x, y, 0))

\* smoothstep(t) = t * t * (3 - 2 * t) for t = n/4, as a numerator over 32
Smoothstep(n) == n * n * (6 - n)

\* lerp(lerp(v00, v10, sx), lerp(v01, v11, sx), sy) for the corner values v[i, j],
\* given as numerators over 2^31, and sx, sy as numerators over 32: the numerator
\* over 2^41 of `value`, as <<low 21 bits, the rest>>
Bilinear(v, sx, sy) ==
  LET unit == Pow2(21)
      w == [i \in 0..1, j \in 0..1 |->
              (IF i = 0 THEN 32 - sx ELSE sx) * (IF j = 0 THEN 32 - sy ELSE sy)]
      low == w[0, 0] * (v[0, 0] % unit) + w[1, 0] * (v[1, 0] % unit)
               + w[0, 1] * (v[0, 1] % unit) + w[1, 1] * (v[1, 1] % unit)
      high == w[0, 0] * (v[0, 0] \div unit) + w[1, 0] * (v[1, 0] \div unit)
                + w[0, 1] * (v[0, 1] \div unit) + w[1, 1] * (v[1, 1] \div unit)
  IN  <<low % unit, high + (low \div unit)>>

\* noise2D(x, y) for x = qx/4 and y = qy/4: `value` before `value * 2 - 1`; the
\* corners are (x0 + i, y0 + j) with x0 = floor(x) and y0 = floor(y)
Noise2D(config, qx, qy) ==
  Bilinear([i \in 0..1, j \in 0..1 |->
              GetRandomValue(config, (qx \div 4) + i, (qy \div 4) + j)],
           Smoothstep(qx % 4), Smoothstep(qy % 4))

\* getTerrainHeight, from the `value` of its three noise2D calls (value[0..2]):
\* combinedNoise = 2 * (value[0] + value[1] / 2 + value[2] / 4) - 7/4, and the result
\* is floor(seaLevel + combinedNoise * terrainHeight)
HeightFromNoise(config, value) ==
  LET unit == Pow2(21)
      low == 4 * value[0][1] + 2 * value[1][1] + value[2][1]
      high == 4 * value[0][2] + 2 * value[1][2] + value[2][2] + (low \div unit)
      scaled == config.terrainHeight * high
                  + ((config.terrainHeight * (low % unit)) \div unit)
  IN  config.seaLevel + ((scaled - 7 * config.terrainHeight * Pow2(19)) \div unit)

\* getTerrainHeight(x, z): octave o samples noise2D at (x, z) * terrainScale * 2^o
GetTerrainHeight(config, x, z) ==
  HeightFromNoise(config,
                  [o \in 0..2 |->
                     Noise2D(config, x * (4 \div config.terrainScale) * Pow2(o),
                             z * (4 \div config.terrainScale) * Pow2(o))])

\* getBlockTypeAt below the bedrock test, were the stone layer left empty
BlockTypeAboveHollow(config, worldY, terrainHeight) ==
  IF worldY < terrainHeight - 3 THEN AIR
  ELSE IF worldY < terrainHeight THEN DIRT
  ELSE IF worldY = terrainHeight
         THEN (IF terrainHeight <= config.seaLevel THEN SAND ELSE GRASS)
  ELSE IF worldY <= config.seaLevel THEN WATER
  ELSE AIR

\* getBlockTypeAt below the bedrock test, given the terrain height of the column
BlockTypeAbove(config, worldY, terrainHeight) ==
  IF worldY < terrainHeight - 3 THEN STONE
  ELSE IF worldY < terrainHeight THEN DIRT
  ELSE IF worldY = terrainHeight
         THEN (IF terrainHeight <= config.seaLevel THEN SAND ELSE GRASS)
  ELSE IF worldY <= config.seaLevel THEN WATER
  ELSE AIR

\* getBlockTypeAt without its bedrock test
GetBlockTypeAtWithoutBedrock(config, worldX, worldY, worldZ) ==
  BlockTypeAbove(config, worldY, GetTerrainHeight(config, worldX, worldZ))

\* getBlockTypeAt(worldX, worldY, worldZ)
GetBlockTypeAt(config, worldX, worldY, worldZ) ==
  IF worldY = 0
    THEN BEDROCK
    ELSE BlockTypeAbove(config, worldY, GetTerrainHeight(config, worldX, worldZ))

\* fillChunkWithTerrain for the chunk at {x: position, y: 0, z: 0}: the block array,
\* block (x, y, z) at `index = x + y * CHUNK_SIZE + z * CHUNK_SIZE * CHUNK_SIZE` (+ 1)
FillChunkWithTerrain(config, position) ==
  [i \in 1..(CHUNK_SIZE * CHUNK_SIZE * CHUNK_SIZE) |->
     GetBlockTypeAt(config,
                    position * CHUNK_SIZE + ((i - 1) % CHUNK_SIZE),
                    ((i - 1) \div CHUNK_SIZE) % CHUNK_SIZE,
                    (i - 1) \div (CHUNK_SIZE * CHUNK_SIZE))]

----------------------------------------------------------------------------
(* ChunkManager helpers *)

\* dx*dx + dy*dy + dz*dz with dy = dz = 0; Math.sqrt is monotonic, so the code's
\* sqrt(d2) > D is d2 > D*D
DistanceSquared(a, b) == (a - b) * (a - b)

\* loadChunksAroundPlayer: `if (distance > renderDistance) continue`
WithinRenderDistance(k, center) ==
  ~(DistanceSquared(k, center) > renderDistance * renderDistance)

\* unloadDistantChunks: `if (distance > unloadDistance) chunksToUnload.push(key)`
BeyondUnloadDistance(k, center) ==
  DistanceSquared(k, center) > unloadDistance * unloadDistance

\* loadChunksAroundPlayer, were it to skip the keys whose generation has failed
LoadCandidatesSkipFailed(center) ==
  {k \in (center - renderDistance)..(center + renderDistance) :
     /\ WithinRenderDistance(k, center)
     /\ k \notin Resident
     /\ k \notin loadingChunks
     /\ k \notin failed}

\* the keys loadChunksAroundPlayer passes to loadChunk
LoadCandidates(center) ==
  {k \in (center - renderDistance)..(center + renderDistance) :
     /\ WithinRenderDistance(k, center)
     /\ k \notin Resident
     /\ k \notin loadingChunks}

\* generations awaited by the updateChunks call in slot s
Awaited(s) == {g \in gens : g.tick = s}

\* a continuation of updateChunks is queued as a microtask: its Promise.all has
\* resolved; it runs before any other task
MicrotaskPending == \E s \in TickSlots : ticks[s].active /\ Awaited(s) = {}

FreeTickSlots == {s \in TickSlots : ~ticks[s].active}
FreeForceCalls == {c \in ForceCalls : \A g \in gens : g.call # c}
Min(S) == CHOOSE x \in S : \A y \in S : x <= y

\* bound: meshes in the scene plus generations in flight for key k
MeshRoom(k) ==
  Cardinality({m \in scene : m[1] = k}) + Cardinality({g \in gens : g.key = k})
    < MaxMeshes

\* chunk.generateMesh(): a fresh THREE.Mesh object, identified by key and serial
FreshMesh(k) == <<k, Min({n \in 1..MaxMeshes : <<k, n>> \notin scene})>>

\* loadChunk, `finally { this.loadingChunks.delete(key) }`
LoadChunkFinally(loading, key) == loading \ {key}

\* loadChunk without its catch block: its promise settles as the generation did
LoadChunkWithoutCatch(generation) == generation

\* loadChunk's own promise: `catch (error) { console.error(...) }` turns a rejected
\* generation into a fulfilled loadChunk
LoadChunkSettles(generation) == "fulfilled"

\* unloadChunk(key) for every key of `keys`: scene.remove(mesh), dispose, delete
SceneAfterUnload(keys) ==
  scene \ {m \in scene : \E k \in keys : chunks[k].mesh = <<m>>}
ChunksAfterUnload(keys) == [k \in Resident \ keys |-> chunks[k]]

\* unloadDistantChunks: the keys marked for unloading
ChunksToUnload(center) == {k \in Resident : BeyondUnloadDistance(chunks[k].position, center)}

----------------------------------------------------------------------------
(* LightingSystem configuration and block grid (src/unnamed/part_001)      *)

\* the defaults of the LightingSystem constructor
DEFAULT_LIGHTING_CONFIG ==
  [enableSunlight |-> TRUE, enableDynamicShadows |-> TRUE, sunIntensity |-> 15,
   timeOfDay |-> 6000]

\* `{ enableSunlight: true, ..., ...config }` for a partial configuration
NewLightingConfig(config) ==
  [f \in DOMAIN DEFAULT_LIGHTING_CONFIG |->
     IF f \in DOMAIN config THEN config[f] ELSE DEFAULT_LIGHTING_CONFIG[f]]

\* the positions of the block grid that may hold a block; every other position is air
Sites == {<<1, 0, 0>>, <<2, 0, 0>>, <<0, 3, 0>>, <<0, 5, 0>>, <<0, 0 - 2, 0>>,
          <<0 - 2, 0 - 2, 0>>}

----------------------------------------------------------------------------
(* ChunkManager configuration (src/src/ChunkManager.ts)                    *)

DEFAULT_CHUNK_MANAGER_CONFIG == [renderDistance |-> 3, unloadDistance |-> 5]

\* `{ ...DEFAULT_CHUNK_MANAGER_CONFIG, ...config }` for a partial configuration
NewChunkManagerConfig(config) ==
  [f \in DOMAIN DEFAULT_CHUNK_MANAGER_CONFIG |->
     IF f \in DOMAIN config THEN config[f] ELSE DEFAULT_CHUNK_MANAGER_CONFIG[f]]

\* The WorldGenerator with simplex noise (described with its actions below):
\* createNoise2D(this.random.next.bind(this.random)) for a stream seeded with `seed`
CreateNoise2D(seed) == seed

\* the constructor: `{ ...DEFAULT_WORLD_CONFIG, ...config }`, then random and noise2D
\* from this.config.seed. DEFAULT_WORLD_CONFIG has the default terrainScale here.
NewNoiseGenerator(config) ==
  LET merged == [NewWorldGenerator(config) EXCEPT !.terrainScale = 20] IN
  [config |-> merged, noise2D |-> CreateNoise2D(merged.seed)]

----------------------------------------------------------------------------
(* ChunkManager operations *)

Init ==
  /\ chunks = <<>>
  /\ loadingChunks = {}
  /\ scene = {}
  /\ lastPlayerChunkPosition = <<>>
  /\ gens = {}
  /\ ticks = [s \in TickSlots |-> IdleTick]
  /\ unhandled = FALSE
  /\ failed = {}
  /\ frame = 0
  /\ now = 0
  /\ nextWorkerIndex = 0
  /\ pendingRequests = <<>>
  /\ promises = <<>>
  /\ inbox = [w \in WorkerIds |-> <<>>]
  /\ generators = [w \in WorkerIds |-> <<NewWorldGenerator(<<>>)>>]
  /\ timers = [w \in WorkerIds |-> <<>>]
  /\ outbox = [w \in WorkerIds |-> <<>>]
  /\ produced = {}
  /\ workers = WorkerCount
  /\ threw = <<>>
  /\ chunkBlocks = [i \in 1..(CHUNK_SIZE * CHUNK_SIZE * CHUNK_SIZE) |-> AIR]
  /\ chunkMesh = <<>>
  /\ worldGenerator = NewWorldGenerator(<<>>)
  /\ generatedChunk = <<>>
  /\ lightingConfig = NewLightingConfig(<<>>)
  /\ lightSources = <<>>
  /\ sunLight = FALSE
  /\ sunAngle = 0
  /\ worldBlocks = [site \in Sites |-> AIR]
  /\ managerConfig = NewChunkManagerConfig(<<>>)
  /\ managedChunks = {}
  /\ managedCenter = <<>>
  /\ tickLoaded = {}
  /\ tickUnloaded = {}
  /\ flatChunks = <<>>
  /\ flatLoading = {}
  /\ flatLoads = {}
  /\ flatScene = {}
  /\ flatRenderDistance = 1
  /\ flatRegen = {}
  /\ spawnChunks = {}
  /\ spawnSearch = <<>>
  /\ spawnResult = <<>>
  /\ noiseGenerator = NewNoiseGenerator(<<>>)
  /\ noiseChunk = <<>>
  /\ blockLookup = <<>>

\* updateChunks(playerPosition) up to its first suspension: the early return when the
\* player is in the same chunk, else every candidate is handed to loadChunk, which
\* marks it loading and starts its generation
UpdateChunksCall(p) ==
  /\ ~MicrotaskPending
  /\ IF lastPlayerChunkPosition = <<p>>
       THEN UNCHANGED <<chunks, loadingChunks, scene, lastPlayerChunkPosition, gens,
                        ticks, unhandled, failed>>
       ELSE /\ FreeTickSlots # {}
            /\ \A k \in LoadCandidates(p) : MeshRoom(k)
            /\ LET s == Min(FreeTickSlots) IN
                 /\ lastPlayerChunkPosition' = <<p>>
                 /\ loadingChunks' = loadingChunks \cup LoadCandidates(p)
                 /\ gens' = gens \cup {TickGen(k, s) : k \in LoadCandidates(p)}
                 /\ ticks' = [ticks EXCEPT ![s] = [active |-> TRUE, center |-> p]]
            /\ UNCHANGED <<chunks, scene, unhandled, failed>>
  /\ UNCHANGED <<poolVars, unitVars>>

UpdateChunks(p) == UpdateChunksCall(p) /\ UNCHANGED frame

\* updateChunks after `await loadChunksAroundPlayer(currentChunkPos)`:
\* unloadDistantChunks(currentChunkPos) with the position this call started with
UpdateChunksResume(s) ==
  /\ ticks[s].active
  /\ Awaited(s) = {}
  /\ LET gone == ChunksToUnload(ticks[s].center) IN
       /\ scene' = SceneAfterUnload(gone)
       /\ chunks' = ChunksAfterUnload(gone)
  /\ ticks' = [ticks EXCEPT ![s] = IdleTick]
  /\ UNCHANGED <<loadingChunks, lastPlayerChunkPosition, gens, unhandled, failed, frame>>
  /\ UNCHANGED <<poolVars, unitVars>>

\* forceLoadChunk(position): loadChunk without any check of chunks or loadingChunks
ForceLoadChunk(k) ==
  /\ ~MicrotaskPending
  /\ FreeForceCalls # {}
  /\ MeshRoom(k)
  /\ loadingChunks' = loadingChunks \cup {k}
  /\ gens' = gens \cup {ForceGen(k, Min(FreeForceCalls))}
  /\ UNCHANGED <<chunks, scene, lastPlayerChunkPosition, ticks, unhandled, failed, frame>>
  /\ UNCHANGED <<poolVars, unitVars>>

\* loadChunk after `await generateChunk(position)` fulfilled: generateMesh, scene.add,
\* chunks.set, then the finally block
GenerationFulfilled(g) ==
  /\ ~MicrotaskPending
  /\ g \in gens
  /\ LET mesh == FreshMesh(g.key) IN
       /\ scene' = scene \cup {mesh}
       /\ chunks' = [k \in Resident \cup {g.key} |->
                       IF k = g.key THEN NewChunk(g.key, mesh) ELSE chunks[k]]
  /\ loadingChunks' = LoadChunkFinally(loadingChunks, g.key)
  /\ gens' = gens \ {g}
  /\ failed' = failed \ {g.key}
  /\ UNCHANGED <<lastPlayerChunkPosition, ticks, unhandled, frame>>
  /\ UNCHANGED <<poolVars, unitVars>>

\* loadChunk after `await generateChunk(position)` rejected: catch, then finally.
\* Were loadChunk to reject, Promise.all and the awaiting updateChunks (or the
\* forceLoadChunk) would reject with it, skipping unloadDistantChunks.
GenerationRejected(g) ==
  /\ ~MicrotaskPending
  /\ g \in gens
  /\ loadingChunks' = LoadChunkFinally(loadingChunks, g.key)
  /\ gens' = gens \ {g}
  /\ failed' = failed \cup {g.key}
  /\ IF LoadChunkSettles("rejected") = "rejected"
       THEN /\ unhandled' = TRUE
            /\ ticks' = [s \in TickSlots |-> IF s = g.tick THEN IdleTick ELSE ticks[s]]
       ELSE UNCHANGED <<unhandled, ticks>>
  /\ UNCHANGED <<chunks, scene, lastPlayerChunkPosition, frame>>
  /\ UNCHANGED <<poolVars, unitVars>>

\* clearAll(): unloadChunk for every resident key
ClearAll ==
  /\ ~MicrotaskPending
  /\ scene' = SceneAfterUnload(Resident)
  /\ chunks' = ChunksAfterUnload(Resident)
  /\ UNCHANGED <<loadingChunks, lastPlayerChunkPosition, gens, ticks, unhandled, failed,
                 frame>>
  /\ UNCHANGED <<poolVars, unitVars>>

Next ==
  \/ \E p \in Coords : UpdateChunks(p)
  \/ \E s \in TickSlots : UpdateChunksResume(s)
  \/ \E k \in 0..MaxForceCoord : ForceLoadChunk(k)
  \/ \E g \in GenSet : GenerationFulfilled(g)
  \/ \E g \in GenSet : GenerationRejected(g)
  \/ ClearAll

Spec == Init /\ [][Next]_vars

\* The same manager driven by the render loop (main.ts animate): every animation
\* frame calls updateChunks, a queued continuation always runs, and every generation
\* in flight is eventually settled.
FairUpdateChunks(p) == UpdateChunksCall(p) /\ frame' = 1 - frame

FairNext ==
  \/ \E p \in Coords : FairUpdateChunks(p)
  \/ \E s \in TickSlots : UpdateChunksResume(s)
  \/ \E k \in 0..MaxForceCoord : ForceLoadChunk(k)
  \/ \E g \in GenSet : GenerationFulfilled(g)
  \/ \E g \in GenSet : GenerationRejected(g)
  \/ ClearAll

FairSpec ==
  /\ Init
  /\ [][FairNext]_vars
  /\ WF_vars(\E p \in Coords : FairUpdateChunks(p))
  /\ WF_vars(\E s \in TickSlots : UpdateChunksResume(s))
  /\ WF_vars(\E g \in GenSet : GenerationFulfilled(g) \/ GenerationRejected(g))

----------------------------------------------------------------------------
(* WorkerPool (src/src/LightingManager.ts) and its workers                 *)
(* (src/src/worldgen.worker.ts)                                            *)

\* the partial configurations passed to WorkerPool.updateConfig
UpdateConfigs == {[seed |-> 3], [seaLevel |-> 3], [seed |-> 3, seaLevel |-> 3]}

\* the configurations a generator instance can hold
ConfigValues(f) ==
  {DEFAULT_WORLD_CONFIG[f]} \cup {u[f] : u \in {v \in UpdateConfigs : f \in DOMAIN v}}
Configs ==
  [seed : ConfigValues("seed"), seaLevel : ConfigValues("seaLevel"),
   terrainScale : ConfigValues("terrainScale"), terrainHeight : ConfigValues("terrainHeight")]

\* fillChunkWithTerrain, tabulated over the explored configurations and positions
\* (the comparison has TLC build the table once instead of at every use)
TerrainOf ==
  LET table == [config \in Configs, position \in PoolPositions |->
                  FillChunkWithTerrain(config, position)]
  IN  IF table = <<>> THEN <<>> ELSE table

\* `${position.x},${position.y},${position.z}-${Date.now()}`
RequestId(position, time) == <<position, time>>

\* Map.set and Map.delete
MapSet(map, key, value) ==
  [k \in DOMAIN map \cup {key} |-> IF k = key THEN value ELSE map[k]]
MapDelete(map, key) == [k \in DOMAIN map \ {key} |-> map[k]]

PendingPromises == {i \in 1..Len(promises) : promises[i].state = "pending"}
FulfilledPromises == {i \in 1..Len(promises) : promises[i].state = "fulfilled"}

\* WorkerPool.updateConfig calls made so far (every call posts to every worker)
UpdatesIssued ==
  Len(generators[0]) - 1
    + Cardinality({i \in 1..Len(inbox[0]) : inbox[0][i].type = "UPDATE_CONFIG"})
    + Cardinality({i \in 1..Len(threw) : /\ threw[i].worker = 0
                                         /\ threw[i].message.type = "UPDATE_CONFIG"})

\* the index after a request, were the pool to keep posting to the same worker:
NextWorkerRepeated(index, count) == index

\* the value of a number % 0, which is no worker's index
NaN == 0 - 1

\* and as generateChunk has it: (this.nextWorkerIndex + 1) % this.workers.length
NextWorker(index, count) == IF count = 0 THEN NaN ELSE (index + 1) % count

\* WorkerPool.generateChunk(position): the request id, the pending entry, the worker
\* chosen round-robin and the message posted to it. With no worker left,
\* this.workers[this.nextWorkerIndex] is undefined and worker.postMessage throws
\* inside the promise's executor, which rejects the promise; the pending entry stays.
PoolGenerateChunk(position) ==
  /\ Len(promises) < MaxRequests
  /\ LET requestId == RequestId(position, now)
         message   == [type |-> "GENERATE_CHUNK", position |-> position,
                       requestId |-> requestId]
         posted    == nextWorkerIndex \in 0..(workers - 1)
     IN  /\ promises' = Append(promises, [position |-> position, requestId |-> requestId,
                                          state |-> IF posted THEN "pending"
                                                              ELSE "rejected",
                                          value |-> <<>>])
         /\ pendingRequests' = MapSet(pendingRequests, requestId, Len(promises) + 1)
         /\ inbox' = IF posted
                       THEN [inbox EXCEPT ![nextWorkerIndex] = Append(@, message)]
                       ELSE inbox
  /\ nextWorkerIndex' = NextWorker(nextWorkerIndex, workers)
  /\ UNCHANGED <<now, generators, timers, outbox, produced, workers, threw>>
  /\ UNCHANGED <<mgrVars, unitVars>>

\* WorkerPool.updateConfig(config): UPDATE_CONFIG posted to every worker
PoolUpdateConfig(config) ==
  /\ UpdatesIssued < MaxUpdates
  /\ inbox' = [w \in WorkerIds |->
                 IF w < workers
                   THEN Append(inbox[w], [type |-> "UPDATE_CONFIG", config |-> config])
                   ELSE inbox[w]]
  /\ UNCHANGED <<now, nextWorkerIndex, pendingRequests, promises, generators, timers,
                 outbox, produced, workers, threw>>
  /\ UNCHANGED <<mgrVars, unitVars>>

\* the millisecond clock read by Date.now() advances
DateAdvances ==
  /\ now < MaxNow
  /\ now' = now + 1
  /\ UNCHANGED <<nextWorkerIndex, pendingRequests, promises, inbox, generators, timers,
                 outbox, produced, workers, threw>>
  /\ UNCHANGED <<mgrVars, unitVars>>

\* handleUpdateConfig(message) on a worker's instances: setSeed on the current
\* `worldGenerator` when the config has a seed, then `new WorldGenerator(config)`
HandleUpdateConfig(instances, config) ==
  Append(IF "seed" \in DOMAIN config
           THEN [instances EXCEPT ![Len(instances)] = SetSeed(@, config.seed)]
           ELSE instances,
         NewWorldGenerator(config))

\* handleGenerateChunk(message) once generateChunk has resolved, for the config of the
\* instance that ran it: extractChunkData copies the chunk's blocks index by index,
\* and the CHUNK_GENERATED message is posted. With the request's clock reading added
\* to the seed:
HandleGenerateChunkClockSeeded(message, config) ==
  [type |-> "CHUNK_GENERATED", position |-> message.position,
   blockData |-> FillChunkWithTerrain([config EXCEPT !.seed = @ + message.requestId[2]],
                                      message.position),
   requestId |-> message.requestId]

\* and as the worker has it:
HandleGenerateChunk(message, config) ==
  [type |-> "CHUNK_GENERATED", position |-> message.position,
   blockData |-> TerrainOf[config, message.position],
   requestId |-> message.requestId]

\* `undefined`, as the value of a requestId no message field supplies
Undefined == <<>>

\* the config `null` passed to updateConfig; `config.seed` throws a TypeError on it
NullConfig == [null |-> TRUE]

\* self.onmessage of worker w for the oldest message posted to it. GENERATE_CHUNK:
\* handleGenerateChunk runs up to `await worldGenerator.generateChunk(position)`,
\* which sets a timer bound to the current instance; being async it returns a promise
\* and throws nothing into the try block. UPDATE_CONFIG: handleUpdateConfig, whose
\* exception the catch block answers with an ERROR message carrying
\* `(message as GenerateChunkRequest).requestId`, a field this message lacks.
WorkerOnMessage(w) ==
  /\ inbox[w] # <<>>
  /\ LET message == Head(inbox[w])
         current == Len(generators[w])
     IN  IF message.type = "GENERATE_CHUNK"
           THEN /\ timers' = [timers EXCEPT ![w] =
                                Append(@, [message |-> message, generator |-> current,
                                           accepted |-> generators[w][current]])]
                /\ UNCHANGED <<generators, outbox, threw>>
           ELSE IF message.config = NullConfig
             THEN /\ outbox' = [outbox EXCEPT ![w] =
                                  Append(@, [type |-> "ERROR", error |-> "TypeError",
                                             requestId |-> Undefined])]
                  /\ threw' = Append(threw, [worker |-> w, message |-> message])
                  /\ UNCHANGED <<generators, timers>>
             ELSE /\ generators' = [generators EXCEPT ![w] =
                                      HandleUpdateConfig(@, message.config)]
                  /\ UNCHANGED <<timers, outbox, threw>>
  /\ inbox' = [inbox EXCEPT ![w] = Tail(@)]
  /\ UNCHANGED <<now, nextWorkerIndex, pendingRequests, promises, produced, workers>>
  /\ UNCHANGED <<mgrVars, unitVars>>

\* the oldest timer of worker w fires: fillChunkWithTerrain with the config its
\* instance has now, resolve, and the rest of handleGenerateChunk
WorkerTimeout(w) ==
  /\ timers[w] # <<>>
  /\ LET timer    == Head(timers[w])
         config   == generators[w][timer.generator]
         response == HandleGenerateChunk(timer.message, config)
     IN  /\ outbox' = [outbox EXCEPT ![w] = Append(@, response)]
         /\ produced' = produced \cup
                          {[worker |-> w, message |-> timer.message,
                            accepted |-> timer.accepted, config |-> config,
                            blockData |-> response.blockData]}
  /\ timers' = [timers EXCEPT ![w] = Tail(@)]
  /\ UNCHANGED <<now, nextWorkerIndex, pendingRequests, promises, inbox, generators,
                 workers, threw>>
  /\ UNCHANGED <<mgrVars, unitVars>>

\* the oldest timer of worker w fires and its callback throws (new Chunk or
\* fillChunkWithTerrain raises): the exception leaves the timer callback uncaught,
\* resolve is never called, handleGenerateChunk stays at its await and nothing is
\* posted; on the main thread worker.onerror logs the error
WorkerTimeoutThrows(w) ==
  /\ timers[w] # <<>>
  /\ threw' = Append(threw, [worker |-> w, message |-> Head(timers[w]).message])
  /\ timers' = [timers EXCEPT ![w] = Tail(@)]
  /\ UNCHANGED <<now, nextWorkerIndex, pendingRequests, promises, inbox, generators,
                 outbox, produced, workers>>
  /\ UNCHANGED <<mgrVars, unitVars>>

\* resolve or reject on a promise: only a pending promise changes
Settle(promise, state, value) ==
  IF promise.state = "pending"
    THEN [promise EXCEPT !.state = state, !.value = value]
    ELSE promise

\* worker.onmessage on the main thread for the oldest message of worker w:
\* handleWorkerMessage, then handleChunkGenerated or handleError
PoolOnMessage(w) ==
  /\ outbox[w] # <<>>
  /\ LET message == Head(outbox[w]) IN
       IF message.type = "ERROR"
         THEN IF /\ message.requestId # Undefined
                 /\ message.requestId \in DOMAIN pendingRequests
                THEN /\ pendingRequests' = MapDelete(pendingRequests, message.requestId)
                     /\ promises' =
                          [promises EXCEPT ![pendingRequests[message.requestId]] =
                             Settle(@, "rejected", message.error)]
                ELSE UNCHANGED <<pendingRequests, promises>>
         ELSE IF message.requestId \in DOMAIN pendingRequests
           THEN /\ pendingRequests' = MapDelete(pendingRequests, message.requestId)
                /\ promises' =
                     [promises EXCEPT ![pendingRequests[message.requestId]] =
                        Settle(@, "fulfilled", [position |-> message.position,
                                                blockData |-> message.blockData])]
           ELSE UNCHANGED <<pendingRequests, promises>>
  /\ outbox' = [outbox EXCEPT ![w] = Tail(@)]
  /\ UNCHANGED <<now, nextWorkerIndex, inbox, generators, timers, produced, workers,
                 threw>>
  /\ UNCHANGED <<mgrVars, unitVars>>

NextPool ==
  \/ \E position \in PoolPositions : PoolGenerateChunk(position)
  \/ \E config \in UpdateConfigs : PoolUpdateConfig(config)
  \/ DateAdvances
  \/ \E w \in WorkerIds : WorkerOnMessage(w)
  \/ \E w \in WorkerIds : WorkerTimeout(w)
  \/ \E w \in WorkerIds : PoolOnMessage(w)

SpecPool == Init /\ [][NextPool]_vars

\* WorkerPool.dispose(): every worker is terminated, which discards the messages and
\* timers it had yet to run; `workers` becomes empty and the pending entries are
\* cleared, neither resolved nor rejected
PoolDispose ==
  /\ workers > 0
  /\ workers' = 0
  /\ pendingRequests' = <<>>
  /\ inbox' = [w \in WorkerIds |-> <<>>]
  /\ timers' = [w \in WorkerIds |-> <<>>]
  /\ UNCHANGED <<now, nextWorkerIndex, promises, generators, outbox, produced, threw>>
  /\ UNCHANGED <<mgrVars, unitVars>>

\* the pool with failing generations and updateConfig(null)
NextPoolFaults ==
  \/ \E position \in PoolPositions : PoolGenerateChunk(position)
  \/ PoolUpdateConfig(NullConfig)
  \/ DateAdvances
  \/ \E w \in WorkerIds : WorkerOnMessage(w)
  \/ \E w \in WorkerIds : WorkerTimeout(w)
  \/ \E w \in WorkerIds : WorkerTimeoutThrows(w)
  \/ \E w \in WorkerIds : PoolOnMessage(w)

SpecPoolFaults == Init /\ [][NextPoolFaults]_vars

\* the pool up to and after dispose(), with workers that answer every request they
\* received as long as they live
NextPoolDispose ==
  \/ \E position \in PoolPositions : PoolGenerateChunk(position)
  \/ DateAdvances
  \/ \E w \in WorkerIds : WorkerOnMessage(w)
  \/ \E w \in WorkerIds : WorkerTimeout(w)
  \/ \E w \in WorkerIds : PoolOnMessage(w)
  \/ PoolDispose

FairSpecPool ==
  /\ Init
  /\ [][NextPoolDispose]_vars
  /\ \A w \in WorkerIds : WF_vars(WorkerOnMessage(w))
  /\ \A w \in WorkerIds : WF_vars(WorkerTimeout(w))
  /\ \A w \in WorkerIds : WF_vars(PoolOnMessage(w))

----------------------------------------------------------------------------
(* Claims about the chunk lifecycle manager *)

GensOf(k) == {g \in gens : g.key = k}
Viewpoint == lastPlayerChunkPosition[1]
HasViewpoint == lastPlayerChunkPosition # <<>>

\* C1: every key follows absent -> loading -> resident -> absent: a key is never in
\* loadingChunks while it is resident, at most one generation is in flight for a key,
\* and a key becomes resident only when the single generation dispatched for it
\* completes.
C1_KeyLifecycle ==
  /\ [](loadingChunks \cap Resident = {})
  /\ [](\A k \in Keys : Cardinality(GensOf(k)) <= 1)
  /\ [][\A k \in Keys :
          (k \notin Resident /\ k \in Resident') =>
             \E g \in gens : GensOf(k) = {g} /\ gens' = gens \ {g}]_vars

\* C2: a generation dispatched by updateChunks that settles when its chunk is no
\* longer within render distance of the viewpoint's chunk adds no mesh to the scene
\* and makes no chunk resident.
C2_StaleResultDiscarded ==
  [][\A g \in gens :
       (/\ g \notin gens'
        /\ g.tick # 0
        /\ HasViewpoint
        /\ ~WithinRenderDistance(g.key, Viewpoint))
       => (scene' = scene /\ chunks' = chunks)]_vars

\* C3: when an updateChunks call unloads chunks, every chunk it unloads is farther
\* than unloadDistance from the viewpoint's current chunk, also when the call
\* overlapped with a later one.
C3_UnloadOnlyBeyondUnloadDistance ==
  [][(\E s \in TickSlots : ticks[s].active /\ ~ticks'[s].active) =>
       \A k \in Resident \ Resident' : BeyondUnloadDistance(k, Viewpoint)]_vars

\* C4: whenever no manager operation is mid-step, the meshes in the scene are exactly
\* the current meshes of the resident chunks, one per chunk.
C4_SceneIsResidentMeshes ==
  ~MicrotaskPending =>
    /\ scene = {chunks[k].mesh[1] : k \in Resident}
    /\ \A j, k \in Resident : chunks[j].mesh = chunks[k].mesh => j = k

\* C5: when the generation of a chunk is rejected, its key leaves loadingChunks, the
\* resident map and the scene are unchanged, no other key's loading mark or
\* generation changes, and the awaiting updateChunks or forceLoadChunk call is not
\* rejected: it stays suspended until it resumes normally.
C5_FailureRecoveredLocally ==
  [][\A g \in gens :
       (g \notin gens' /\ g.key \in failed') =>
          /\ g.key \notin loadingChunks'
          /\ loadingChunks' \ {g.key} = loadingChunks \ {g.key}
          /\ chunks' = chunks
          /\ scene' = scene
          /\ gens' = gens \ {g}
          /\ ticks' = ticks
          /\ unhandled' = FALSE]_vars

\* a generation awaited by updateChunks was rejected, the call has resumed and other
\* chunks of the same call are resident
C5_Witness ==
  \E k \in failed :
    /\ k \notin loadingChunks
    /\ k \notin Resident
    /\ HasViewpoint /\ WithinRenderDistance(k, Viewpoint)
    /\ Resident # {}
    /\ \A s \in TickSlots : ~ticks[s].active

\* C6 as stated: a chunk within render distance whose generation failed is dispatched
\* again (or is resident) at some later time unless the viewpoint leaves its chunk.
C6_FailedChunkRetried ==
  \A k \in Keys : \A p \in Coords :
    (/\ k \in failed /\ k \notin Resident /\ k \notin loadingChunks
     /\ lastPlayerChunkPosition = <<p>> /\ WithinRenderDistance(k, p))
    ~> (k \in loadingChunks \/ k \in Resident \/ lastPlayerChunkPosition # <<p>>)

\* C6 amended: an updateChunks call dispatches generations only when the viewpoint's
\* chunk differs from that of the previous call, and then it dispatches every absent
\* chunk within render distance, the ones whose generation failed included; a call
\* made while the viewpoint stays in its chunk changes nothing.
C6_RetriedWhenViewpointChunkChanges ==
  [][frame' # frame =>
       IF lastPlayerChunkPosition' = lastPlayerChunkPosition
         THEN UNCHANGED <<chunks, loadingChunks, scene, gens, ticks, failed>>
         ELSE \A k \in failed :
                (k \notin Resident /\ WithinRenderDistance(k, lastPlayerChunkPosition'[1]))
                  => k \in loadingChunks']_vars

\* a chunk whose generation failed is loading again for an updateChunks call
C6_Witness ==
  \E k \in failed : \E g \in gens : g.key = k /\ g.tick # 0

----------------------------------------------------------------------------
(* Claims about the worker pool and the generator *)

\* C7: the number of generation requests dispatched to the pool and not yet answered
\* never exceeds the number of workers.
C7_PendingRequestsWithinPoolSize ==
  Cardinality(DOMAIN pendingRequests) <= WorkerCount

\* C8: the requests pending at the same time have pairwise distinct ids, each is
\* still registered under its own id (none has been overwritten), and a fulfilled
\* request carries its own position and the blocks generated for its id.
C8_ResultsMatchedByRequestId ==
  /\ \A i, j \in PendingPromises :
       i # j => promises[i].requestId # promises[j].requestId
  /\ \A i \in PendingPromises :
       /\ promises[i].requestId \in DOMAIN pendingRequests
       /\ pendingRequests[promises[i].requestId] = i
  /\ \A i \in FulfilledPromises :
       /\ promises[i].value.position = promises[i].position
       /\ \E r \in produced :
            /\ r.message.requestId = promises[i].requestId
            /\ r.blockData = promises[i].value.blockData

C10_GeneratedFromAcceptedConfig ==
  \A r \in produced : r.blockData = TerrainOf[r.accepted, r.message.position]

----------------------------------------------------------------------------
(* Block lookup by world coordinate (src/src/Player.ts, src/src/Chunk.ts)  *)

\* world coordinates looked up: x across every chunk key and one chunk beyond on
\* either side, y and z from one below the chunk at 0 to one above it
LookupXs == ((Min(Keys) - 1) * CHUNK_SIZE)..((MaxCoord + renderDistance + 2) * CHUNK_SIZE - 1)
LookupYZs == (0 - 1)..CHUNK_SIZE

\* the blocks of the chunk the manager's generator builds for a key
\* (fillChunkWithTerrain under the default configuration), tabulated
TerrainOfKey ==
  LET table == [position \in Keys |-> FillChunkWithTerrain(DEFAULT_WORLD_CONFIG, position)]
  IN  IF table = <<>> THEN <<>> ELSE table

\* Chunk.getBlock, were it to check the index in place of each coordinate
ChunkGetBlockByIndex(blocks, x, y, z) ==
  LET index == x + y * CHUNK_SIZE + z * CHUNK_SIZE * CHUNK_SIZE IN
  IF index < 0 \/ index >= CHUNK_SIZE * CHUNK_SIZE * CHUNK_SIZE
    THEN AIR
    ELSE blocks[index + 1]

\* Chunk.getBlock(x, y, z) on a block array
ChunkGetBlock(blocks, x, y, z) ==
  IF x < 0 \/ x >= CHUNK_SIZE \/ y < 0 \/ y >= CHUNK_SIZE \/ z < 0 \/ z >= CHUNK_SIZE
    THEN AIR
    ELSE blocks[x + y * CHUNK_SIZE + z * CHUNK_SIZE * CHUNK_SIZE + 1]

\* JavaScript `a % n` for n > 0: the remainder has the sign of a
Remainder(a, n) == IF a >= 0 THEN a % n ELSE 0 - ((0 - a) % n)

\* Math.floor(world / CHUNK_SIZE)
ChunkCoordinate(world) == world \div CHUNK_SIZE

\* the local coordinate, were it the bare remainder world % CHUNK_SIZE:
LocalCoordinateTruncated(world) == Remainder(world, CHUNK_SIZE)

\* ((world % CHUNK_SIZE) + CHUNK_SIZE) % CHUNK_SIZE
LocalCoordinate(world) == Remainder(Remainder(world, CHUNK_SIZE) + CHUNK_SIZE, CHUNK_SIZE)

\* ChunkManager.getChunk({x, y, z}): the chunk stored under the key, <<>> for undefined
GetChunk(x, y, z) ==
  IF y = 0 /\ z = 0 /\ x \in Resident THEN <<chunks[x]>> ELSE <<>>

\* Player.getBlockAt, were it to take a chunk that is not loaded for solid
GetBlockAtAssumingSolid(worldX, worldY, worldZ) ==
  LET chunk == GetChunk(ChunkCoordinate(worldX), ChunkCoordinate(worldY),
                        ChunkCoordinate(worldZ))
  IN  IF chunk = <<>>
        THEN STONE
        ELSE ChunkGetBlock(TerrainOfKey[chunk[1].position], LocalCoordinate(worldX),
                           LocalCoordinate(worldY), LocalCoordinate(worldZ))

\* Player.getBlockAt(worldX, worldY, worldZ)
GetBlockAt(worldX, worldY, worldZ) ==
  LET chunk == GetChunk(ChunkCoordinate(worldX), ChunkCoordinate(worldY),
                        ChunkCoordinate(worldZ))
  IN  IF chunk = <<>>
        THEN AIR
        ELSE ChunkGetBlock(TerrainOfKey[chunk[1].position], LocalCoordinate(worldX),
                           LocalCoordinate(worldY), LocalCoordinate(worldZ))

\* C11: a lookup at a world coordinate whose chunk is not resident (never loaded,
\* loading, unloaded, or at a negative coordinate) completes and returns air.
C11_AbsentChunkReadsAir ==
  \A worldX \in LookupXs : \A worldY, worldZ \in LookupYZs :
    GetChunk(ChunkCoordinate(worldX), ChunkCoordinate(worldY), ChunkCoordinate(worldZ)) = <<>>
      => GetBlockAt(worldX, worldY, worldZ) = AIR

\* the chunk at a negative coordinate is loading and reads air while a resident
\* chunk reads bedrock at its floor
C11_Witness ==
  \E k \in loadingChunks \ Resident : \E j \in Resident :
    /\ k < 0
    /\ GetBlockAt(k * CHUNK_SIZE, 0, 0) = AIR
    /\ GetBlockAt(j * CHUNK_SIZE, 0, 0) = BEDROCK

----------------------------------------------------------------------------
(* A Chunk on its own (src/src/Chunk.ts)                                   *)

\* coordinates passed to getBlock and setBlock: in range, adjacent to the edge and
\* farther out than the block array is long
BlockCoords ==
  {0 - CHUNK_SIZE * CHUNK_SIZE * CHUNK_SIZE - 1} \cup ((0 - 1)..CHUNK_SIZE)
    \cup {CHUNK_SIZE * CHUNK_SIZE * CHUNK_SIZE + 1}
LocalCoords == 0..(CHUNK_SIZE - 1)

\* block types written to the explored chunk
BlockTypes == {AIR, STONE, WATER}

\* BLOCK_CONFIG[type].transparent
Transparent(type) == type \in {AIR, WATER}

\* Chunk.setBlock(x, y, z, type) on a block array
ChunkSetBlock(blocks, x, y, z, type) ==
  IF x < 0 \/ x >= CHUNK_SIZE \/ y < 0 \/ y >= CHUNK_SIZE \/ z < 0 \/ z >= CHUNK_SIZE
    THEN blocks
    ELSE [blocks EXCEPT ![x + y * CHUNK_SIZE + z * CHUNK_SIZE * CHUNK_SIZE + 1] = type]

\* the `faces` of generateMesh, by the offset of the neighbour each one checks:
\* +Z, -Z, +X, -X, +Y, -Y
Faces == {<<0, 0, 1>>, <<0, 0, 0 - 1>>, <<1, 0, 0>>, <<0 - 1, 0, 0>>,
          <<0, 1, 0>>, <<0, 0 - 1, 0>>}

\* shouldRenderFace(x, y, z)
ShouldRenderFace(blocks, x, y, z) ==
  LET adjacentBlock == ChunkGetBlock(blocks, x, y, z)
  IN  adjacentBlock = AIR \/ Transparent(adjacentBlock)

\* generateMesh(): the quads pushed, each as <<x, y, z, face>> of the block it
\* belongs to
GenerateMesh(blocks) ==
  {q \in LocalCoords \X LocalCoords \X LocalCoords \X Faces :
     /\ ChunkGetBlock(blocks, q[1], q[2], q[3]) # AIR
     /\ ShouldRenderFace(blocks, q[1] + q[4][1], q[2] + q[4][2], q[3] + q[4][3])}

\* chunk.setBlock(x, y, z, type), as the generator calls it on a chunk that has no
\* mesh yet
SetBlockStep(x, y, z, type) ==
  /\ chunkMesh = <<>>
  /\ chunkBlocks' = ChunkSetBlock(chunkBlocks, x, y, z, type)
  /\ UNCHANGED <<chunkMesh, worldGenerator, generatedChunk, lightVars>>
  /\ UNCHANGED <<mgrVars, poolVars, cfgVars, flatVars, spawnVars, seedVars, lookVars>>

\* chunk.fill(type)
FillStep(type) ==
  /\ chunkMesh = <<>>
  /\ chunkBlocks' = [i \in DOMAIN chunkBlocks |-> type]
  /\ UNCHANGED <<chunkMesh, worldGenerator, generatedChunk, lightVars>>
  /\ UNCHANGED <<mgrVars, poolVars, cfgVars, flatVars, spawnVars, seedVars, lookVars>>

\* chunk.generateMesh()
GenerateMeshStep ==
  /\ chunkMesh = <<>>
  /\ chunkMesh' = <<GenerateMesh(chunkBlocks)>>
  /\ UNCHANGED <<chunkBlocks, worldGenerator, generatedChunk, lightVars>>
  /\ UNCHANGED <<mgrVars, poolVars, cfgVars, flatVars, spawnVars, seedVars, lookVars>>

\* chunk.dispose()
DisposeStep ==
  /\ chunkMesh # <<>>
  /\ chunkMesh' = <<>>
  /\ UNCHANGED <<chunkBlocks, worldGenerator, generatedChunk, lightVars>>
  /\ UNCHANGED <<mgrVars, poolVars, cfgVars, flatVars, spawnVars, seedVars, lookVars>>

NextChunk ==
  \/ \E x, y, z \in BlockCoords : \E type \in BlockTypes : SetBlockStep(x, y, z, type)
  \/ \E type \in BlockTypes : FillStep(type)
  \/ GenerateMeshStep
  \/ DisposeStep

SpecChunk == Init /\ [][NextChunk]_vars

\* C12: getBlock with any coordinate outside 0..CHUNK_SIZE-1 returns air, whatever
\* the chunk holds and however far out the coordinate is.
C12_OutOfRangeReadsAir ==
  \A x, y, z \in BlockCoords :
    (x \notin LocalCoords \/ y \notin LocalCoords \/ z \notin LocalCoords)
      => ChunkGetBlock(chunkBlocks, x, y, z) = AIR

\* the chunk holds no air cell at all: air can only come from the range test
C12_Witness ==
  /\ \A i \in DOMAIN chunkBlocks : chunkBlocks[i] = STONE
  /\ ChunkGetBlock(chunkBlocks, 0 - 1, 1, 0) = AIR
  /\ ChunkGetBlock(chunkBlocks, 0, 0, 0) = STONE

\* a solid, opaque block
SolidOpaque(type) == type # AIR /\ ~Transparent(type)

\* C13: in a generated mesh there is a quad between a cell and its neighbour along
\* an axis (a neighbour outside the chunk counting as air) exactly when one of the
\* two is solid and opaque and the other is not.
C13_FaceIffExactlyOneSolid ==
  chunkMesh # <<>> =>
    \A x, y, z \in LocalCoords : \A face \in Faces :
      LET a == ChunkGetBlock(chunkBlocks, x, y, z)
          b == ChunkGetBlock(chunkBlocks, x + face[1], y + face[2], z + face[3])
          back == <<0 - face[1], 0 - face[2], 0 - face[3]>>
      IN  (\/ <<x, y, z, face>> \in chunkMesh[1]
           \/ <<x + face[1], y + face[2], z + face[3], back>> \in chunkMesh[1])
            <=> (SolidOpaque(a) # SolidOpaque(b))

----------------------------------------------------------------------------
(* A WorldGenerator on its own (src/src/WorldGenerator.ts)                 *)

\* partial configurations passed to `new WorldGenerator(config)`
GeneratorSeeds == {12345, 3}
GeneratorSeaLevels == {0 - 1, 2, 5}
GeneratorScales == {1, 4}
GeneratorHeights == {0, 10}
GeneratorConfigs ==
  {<<>>} \cup [seed : GeneratorSeeds, seaLevel : GeneratorSeaLevels,
               terrainScale : GeneratorScales, terrainHeight : GeneratorHeights]

\* chunk positions {x, y, z} passed to generateChunk
MaxChunkY == 3
ChunkPositions == ((0 - 1)..1) \X ((0 - 1)..MaxChunkY) \X (0..1)

\* the world coordinate of the cell at index i (from 1) of the chunk at `position`,
\* `index = x + y * CHUNK_SIZE + z * CHUNK_SIZE * CHUNK_SIZE`
WorldOf(position, i) ==
  <<position[1] * CHUNK_SIZE + ((i - 1) % CHUNK_SIZE),
    position[2] * CHUNK_SIZE + (((i - 1) \div CHUNK_SIZE) % CHUNK_SIZE),
    position[3] * CHUNK_SIZE + ((i - 1) \div (CHUNK_SIZE * CHUNK_SIZE))>>

\* generateChunk(position): `new Chunk(position)` filled by fillChunkWithTerrain
GenerateChunk(config, position) ==
  [position |-> position,
   blocks |-> [i \in 1..(CHUNK_SIZE * CHUNK_SIZE * CHUNK_SIZE) |->
                 GetBlockTypeAt(config, WorldOf(position, i)[1], WorldOf(position, i)[2],
                                WorldOf(position, i)[3])]]

\* generateChunk, tabulated over the explored configurations and positions
GeneratedChunkOf ==
  LET table == [config \in [seed : GeneratorSeeds, seaLevel : GeneratorSeaLevels,
                            terrainScale : GeneratorScales,
                            terrainHeight : GeneratorHeights],
                position \in ChunkPositions |-> GenerateChunk(config, position)]
  IN  IF table = <<>> THEN <<>> ELSE table

\* `new WorldGenerator(config)`
NewWorldGeneratorStep(config) ==
  /\ worldGenerator' = NewWorldGenerator(config)
  /\ generatedChunk' = <<>>
  /\ UNCHANGED <<chunkBlocks, chunkMesh, lightVars>>
  /\ UNCHANGED <<mgrVars, poolVars, cfgVars, flatVars, spawnVars, seedVars, lookVars>>

\* setSeed(seed)
SetSeedStep(seed) ==
  /\ worldGenerator' = SetSeed(worldGenerator, seed)
  /\ generatedChunk' = <<>>
  /\ UNCHANGED <<chunkBlocks, chunkMesh, lightVars>>
  /\ UNCHANGED <<mgrVars, poolVars, cfgVars, flatVars, spawnVars, seedVars, lookVars>>

\* generateChunk(position), to the resolution of its promise
GenerateChunkStep(position) ==
  /\ generatedChunk' = <<GeneratedChunkOf[worldGenerator, position]>>
  /\ UNCHANGED worldGenerator
  /\ UNCHANGED <<chunkBlocks, chunkMesh, lightVars>>
  /\ UNCHANGED <<mgrVars, poolVars, cfgVars, flatVars, spawnVars, seedVars, lookVars>>

NextGenerator ==
  \/ \E config \in GeneratorConfigs : NewWorldGeneratorStep(config)
  \/ \E seed \in GeneratorSeeds : SetSeedStep(seed)
  \/ \E position \in ChunkPositions : GenerateChunkStep(position)

SpecGenerator == Init /\ [][NextGenerator]_vars

\* the cells of the generated chunk
GeneratedCells == DOMAIN generatedChunk[1].blocks
GeneratedWorld(i) == WorldOf(generatedChunk[1].position, i)

\* C14: in a generated chunk every cell at world y = 0 is bedrock and no cell above
\* the sea level of the configuration is water.
C14_BedrockFloorAndNoWaterAboveSea ==
  generatedChunk # <<>> =>
    \A i \in GeneratedCells :
      /\ GeneratedWorld(i)[2] = 0 => generatedChunk[1].blocks[i] = BEDROCK
      /\ GeneratedWorld(i)[2] > worldGenerator.seaLevel
           => generatedChunk[1].blocks[i] # WATER

\* a chunk at the floor of the world whose upper cells are above sea level and
\* above the terrain: bedrock below, air above
C14_Witness ==
  /\ generatedChunk # <<>>
  /\ \E i, k \in GeneratedCells :
       /\ GeneratedWorld(i)[2] = 0
       /\ generatedChunk[1].blocks[i] = BEDROCK
       /\ GeneratedWorld(k)[2] > worldGenerator.seaLevel
       /\ generatedChunk[1].blocks[k] = AIR

\* the terrain height of the column of cell i of the generated chunk
GeneratedTerrainHeight(i) ==
  GetTerrainHeight(worldGenerator, GeneratedWorld(i)[1], GeneratedWorld(i)[3])

\* C15: a generated chunk whose cells all lie at or below sea level and below the
\* terrain height of their column holds no air cell.
C15_NoAirBelowSeaAndTerrain ==
  (/\ generatedChunk # <<>>
   /\ \A i \in GeneratedCells :
        /\ GeneratedWorld(i)[2] <= worldGenerator.seaLevel
        /\ GeneratedWorld(i)[2] < GeneratedTerrainHeight(i))
    => \A i \in GeneratedCells : generatedChunk[1].blocks[i] # AIR

\* such a chunk, reaching into the stone layer and away from the bedrock floor
C15_Witness ==
  /\ generatedChunk # <<>>
  /\ generatedChunk[1].position[2] # 0
  /\ \A i \in GeneratedCells :
       /\ GeneratedWorld(i)[2] <= worldGenerator.seaLevel
       /\ GeneratedWorld(i)[2] < GeneratedTerrainHeight(i)
  /\ \E i \in GeneratedCells : generatedChunk[1].blocks[i] = STONE

----------------------------------------------------------------------------
(* A LightingSystem on its own (src/unnamed/part_001)                      *)
(*                                                                         *)
(* Positions are integer triples. Angles are written in units of           *)
(* 2 * PI / 24000, so sunAngle is the time of day it was computed from; the *)
(* explored times are multiples of 3000, for which the sun direction is    *)
(* along an axis or a diagonal. Rounded ray positions are computed on      *)
(* integers.                                                               *)

\* times passed to setTimeOfDay, the delta passed to advanceTime
DayLength == 24000
SetTimes == {0, 6000, 18000, 30000}
TimeDelta == 3000

\* partial configurations passed to `new LightingSystem(config)`
LightingConfigs ==
  {<<>>, [enableSunlight |-> FALSE], [enableDynamicShadows |-> FALSE],
   [timeOfDay |-> 18000]}

\* light sources passed to addLightSource
LightSourceInputs ==
  {[id |-> "torch", position |-> <<3, 0, 0>>, intensity |-> 14],
   [id |-> "torch", position |-> <<3, 0, 0>>, intensity |-> 20],
   [id |-> "lava", position |-> <<0, 4, 0>>, intensity |-> 6]}

\* positions whose light level is queried
SamplePoints == {<<0, 0, 0>>, <<0, 2, 0>>, <<1, 0, 0>>}

\* block types placed on the grid; water only at WaterSites
WaterSites == {<<0, 3, 0>>}

Max2(a, b) == IF a >= b THEN a ELSE b
Min2(a, b) == IF a <= b THEN a ELSE b

\* Math.round(num / den) for den > 0: halves round up
Round(num, den) == (2 * num + den) \div (2 * den)

\* Math.floor(Math.sqrt(n)) and Math.ceil(Math.sqrt(n)) for an integer n >= 0
FloorSqrt(n) == CHOOSE r \in 0..n : r * r <= n /\ n < (r + 1) * (r + 1)
CeilSqrt(n) == CHOOSE r \in 0..n : r * r >= n /\ (r = 0 \/ (r - 1) * (r - 1) < n)

\* the square of the distance between two positions
SquaredDistance(p, q) ==
  (p[1] - q[1]) * (p[1] - q[1]) + (p[2] - q[2]) * (p[2] - q[2])
    + (p[3] - q[3]) * (p[3] - q[3])

\* the getBlockAt callback
LookupBlock(position) ==
  IF position \in DOMAIN worldBlocks THEN worldBlocks[position] ELSE AIR

\* `block !== BlockType.AIR && !BLOCK_CONFIG[block].transparent`
Blocks(position) == SolidOpaque(LookupBlock(position))

\* Map.set(source.id, source) and Map.delete(id) on the values in insertion order
SourceIndex(id) == {k \in 1..Len(lightSources) : lightSources[k].id = id}
MapSetSource(source) ==
  IF SourceIndex(source.id) = {}
    THEN Append(lightSources, source)
    ELSE [k \in 1..Len(lightSources) |->
            IF lightSources[k].id = source.id THEN source ELSE lightSources[k]]
MapDeleteSource(id) == SelectSeq(lightSources, LAMBDA source : source.id # id)

\* `normalizedTime < 0.25 || normalizedTime > 0.75`
IsNight(timeOfDay) == 4 * timeOfDay < DayLength \/ 4 * timeOfDay > 3 * DayLength

\* (Math.cos(sunAngle), Math.sin(sunAngle)) as <<sign of x, sign of y, diagonal>>:
\* the components are 0, 1 or -1 along an axis and +-sqrt(1/2) on a diagonal
SunDirection(angle) ==
  LET octant == (8 * angle) \div DayLength IN
  CASE octant = 0 -> <<1, 0, FALSE>>
    [] octant = 1 -> <<1, 1, TRUE>>
    [] octant = 2 -> <<0, 1, FALSE>>
    [] octant = 3 -> <<0 - 1, 1, TRUE>>
    [] octant = 4 -> <<0 - 1, 0, FALSE>>
    [] octant = 5 -> <<0 - 1, 0 - 1, TRUE>>
    [] octant = 6 -> <<0, 0 - 1, FALSE>>
    [] octant = 7 -> <<1, 0 - 1, TRUE>>

\* Math.round(sqrt(1/2) * t) for t = (i / steps) * maxDistance = 5 * i / 2
RoundDiagonal(i) ==
  CHOOSE n \in 0..(2 * i) :
    2 * (2 * n - 1) * (2 * n - 1) <= 25 * i * i /\ 25 * i * i < 2 * (2 * n + 1) * (2 * n + 1)

\* t = (i / steps) * maxDistance in thousandths: the doubles give 5 * i / 2 exactly
\* for every step but the 11th, where t is 27.500000000000004
RayDistance(i) == 2500 * i + (IF i = 11 THEN 1 ELSE 0)

\* Math.round(world + sunDir * t) for one coordinate and ray step i
SunCheck(world, sign, diagonal, i) ==
  IF diagonal THEN world + sign * RoundDiagonal(i)
  ELSE Round(1000 * world + sign * RayDistance(i), 1000)

\* the position checked at step i of the ray cast from p toward the sun
SunCheckPosition(p, i) ==
  LET dir == SunDirection(sunAngle)
  IN  <<SunCheck(p[1], dir[1], dir[3], i), SunCheck(p[2], dir[2], dir[3], i), p[3]>>

\* the steps of calculateSunlight's ray
SunSteps == 1..20

\* `Math.max(3, 15 - Math.floor(t / 5))` for t = 5 * i / 2
ShadowDepth(i) == Max2(3, 15 - ((5 * i) \div 10))

\* the first step of the ray from p at which a solid block is hit, 0 for none
FirstHit(p) ==
  LET hits == {i \in SunSteps : Blocks(SunCheckPosition(p, i))}
  IN  IF hits = {} THEN 0 ELSE Min(hits)

\* calculateSunlight(worldX, worldY, worldZ, getBlockAt)
CalculateSunlight(p) ==
  IF ~lightingConfig.enableDynamicShadows THEN lightingConfig.sunIntensity
  ELSE IF IsNight(lightingConfig.timeOfDay) THEN 2
  ELSE IF FirstHit(p) # 0 THEN ShadowDepth(FirstHit(p))
  ELSE lightingConfig.sunIntensity

\* isPathBlocked(x1, y1, z1, x2, y2, z2, getBlockAt)
IsPathBlocked(p1, p2) ==
  LET steps == CeilSqrt(4 * SquaredDistance(p1, p2)) IN
  IF SquaredDistance(p1, p2) < 1 THEN FALSE
  ELSE \E i \in 1..(steps - 1) :
         Blocks(<<Round(p1[1] * steps + (p2[1] - p1[1]) * i, steps),
                  Round(p1[2] * steps + (p2[2] - p1[2]) * i, steps),
                  Round(p1[3] * steps + (p2[3] - p1[3]) * i, steps)>>)

\* `Math.max(0, source.intensity - Math.floor(distance))`
LightFalloff(source, p) ==
  Max2(0, source.intensity - FloorSqrt(SquaredDistance(p, source.position)))

\* what one source adds in the loop of calculateLightLevel, were the path to the
\* source not checked
SourceLightUnchecked(source, p) == LightFalloff(source, p)

\* what one source adds in the loop of calculateLightLevel: its level when that is
\* positive and the path is not blocked
SourceLight(source, p) ==
  IF LightFalloff(source, p) > 0 /\ ~IsPathBlocked(p, source.position)
    THEN LightFalloff(source, p)
    ELSE 0

\* the loop of calculateLightLevel over lightSources.values(), from the k-th on
RECURSIVE LightLoop(_, _, _)
LightLoop(p, k, maxLight) ==
  IF k > Len(lightSources) THEN maxLight
  ELSE LightLoop(p, k + 1, Max2(maxLight, SourceLight(lightSources[k], p)))

\* maxLight after the sunlight block of calculateLightLevel
SunTerm(p) ==
  IF lightingConfig.enableSunlight THEN Max2(0, CalculateSunlight(p)) ELSE 0

\* calculateLightLevel without its final Math.min(15, maxLight)
CalculateLightLevelUnclamped(p) == LightLoop(p, 1, SunTerm(p))

\* calculateLightLevel(worldX, worldY, worldZ, getBlockAt)
CalculateLightLevel(p) == Min2(15, LightLoop(p, 1, SunTerm(p)))

\* `new LightingSystem(config)`
NewLightingSystemStep(config) ==
  /\ lightingConfig' = NewLightingConfig(config)
  /\ lightSources' = <<>>
  /\ sunLight' = FALSE
  /\ sunAngle' = 0
  /\ UNCHANGED worldBlocks
  /\ UNCHANGED <<chunkBlocks, chunkMesh, worldGenerator, generatedChunk>>
  /\ UNCHANGED <<mgrVars, poolVars, cfgVars, flatVars, spawnVars, seedVars, lookVars>>

\* setSunLight(sunLight): the reference is kept and updateSunPosition runs
SetSunLightStep ==
  /\ sunLight' = TRUE
  /\ sunAngle' = lightingConfig.timeOfDay
  /\ UNCHANGED <<lightingConfig, lightSources, worldBlocks>>
  /\ UNCHANGED <<chunkBlocks, chunkMesh, worldGenerator, generatedChunk>>
  /\ UNCHANGED <<mgrVars, poolVars, cfgVars, flatVars, spawnVars, seedVars, lookVars>>

\* addLightSource(source)
AddLightSourceStep(source) ==
  /\ lightSources' = MapSetSource(source)
  /\ UNCHANGED <<lightingConfig, sunLight, sunAngle, worldBlocks>>
  /\ UNCHANGED <<chunkBlocks, chunkMesh, worldGenerator, generatedChunk>>
  /\ UNCHANGED <<mgrVars, poolVars, cfgVars, flatVars, spawnVars, seedVars, lookVars>>

\* removeLightSource(id)
RemoveLightSourceStep(id) ==
  /\ lightSources' = MapDeleteSource(id)
  /\ UNCHANGED <<lightingConfig, sunLight, sunAngle, worldBlocks>>
  /\ UNCHANGED <<chunkBlocks, chunkMesh, worldGenerator, generatedChunk>>
  /\ UNCHANGED <<mgrVars, poolVars, cfgVars, flatVars, spawnVars, seedVars, lookVars>>

\* updateSunPosition() after the time of day became `time`: nothing without a
\* sunLight
UpdateSunPosition(time) == IF sunLight THEN time ELSE sunAngle

\* setTimeOfDay(time)
SetTimeOfDayStep(time) ==
  /\ lightingConfig' = [lightingConfig EXCEPT !.timeOfDay = time % DayLength]
  /\ sunAngle' = UpdateSunPosition(time % DayLength)
  /\ UNCHANGED <<lightSources, sunLight, worldBlocks>>
  /\ UNCHANGED <<chunkBlocks, chunkMesh, worldGenerator, generatedChunk>>
  /\ UNCHANGED <<mgrVars, poolVars, cfgVars, flatVars, spawnVars, seedVars, lookVars>>

\* advanceTime(delta)
AdvanceTimeStep(delta) ==
  /\ lightingConfig' = [lightingConfig EXCEPT !.timeOfDay = (@ + delta) % DayLength]
  /\ sunAngle' = UpdateSunPosition((lightingConfig.timeOfDay + delta) % DayLength)
  /\ UNCHANGED <<lightSources, sunLight, worldBlocks>>
  /\ UNCHANGED <<chunkBlocks, chunkMesh, worldGenerator, generatedChunk>>
  /\ UNCHANGED <<mgrVars, poolVars, cfgVars, flatVars, spawnVars, seedVars, lookVars>>

\* the block grid behind getBlockAt changes at one site
PlaceBlockStep(site, type) ==
  /\ type = WATER => site \in WaterSites
  /\ worldBlocks' = [worldBlocks EXCEPT ![site] = type]
  /\ UNCHANGED <<lightingConfig, lightSources, sunLight, sunAngle>>
  /\ UNCHANGED <<chunkBlocks, chunkMesh, worldGenerator, generatedChunk>>
  /\ UNCHANGED <<mgrVars, poolVars, cfgVars, flatVars, spawnVars, seedVars, lookVars>>

NextLight ==
  \/ \E config \in LightingConfigs : NewLightingSystemStep(config)
  \/ SetSunLightStep
  \/ \E source \in LightSourceInputs : AddLightSourceStep(source)
  \/ \E source \in LightSourceInputs : RemoveLightSourceStep(source.id)
  \/ \E time \in SetTimes : SetTimeOfDayStep(time)
  \/ AdvanceTimeStep(TimeDelta)
  \/ \E site \in Sites : \E type \in BlockTypes : PlaceBlockStep(site, type)

SpecLight == Init /\ [][NextLight]_vars

\* the largest member of a non-empty set of numbers
Maximum(S) == CHOOSE x \in S : \A y \in S : x >= y

\* what the sun and each light source add at p, the sun only when sunlight is
\* enabled
Contributions(p) ==
  {0} \cup (IF lightingConfig.enableSunlight THEN {CalculateSunlight(p)} ELSE {})
      \cup {SourceLight(lightSources[k], p) : k \in DOMAIN lightSources}

\* C16: calculateLightLevel returns a value in 0..15 that is the smaller of 15
\* and the largest of the sun contribution and every point source contribution,
\* the sun term left out when sunlight is disabled.
C16_LightLevelIsClampedMaximum ==
  \A p \in SamplePoints :
    /\ CalculateLightLevel(p) \in 0..15
    /\ CalculateLightLevel(p) = Min2(15, Maximum(Contributions(p)))

\* a source of intensity above 15 reaches a sample with more than 15 while
\* sunlight is disabled and a second source is present
C16_Witness ==
  /\ ~lightingConfig.enableSunlight
  /\ Len(lightSources) = 2
  /\ \E p \in SamplePoints :
       /\ \E k \in DOMAIN lightSources : SourceLight(lightSources[k], p) > 15
       /\ CalculateLightLevel(p) = 15

\* the sun's ray is cast: shadows are enabled and the time of day is not night
RayCast == lightingConfig.enableDynamicShadows /\ ~IsNight(lightingConfig.timeOfDay)

\* C17: when the ray from a sample toward the sun hits a solid block, the sun
\* contribution is lower than the full sun intensity, and a hit at an earlier
\* step of the ray never yields a brighter result than a hit at a later step.
C17_CloserOccluderIsDarker ==
  RayCast =>
    \A p \in SamplePoints : \A q \in SamplePoints :
      /\ FirstHit(p) # 0 => CalculateSunlight(p) < lightingConfig.sunIntensity
      /\ (FirstHit(p) # 0 /\ FirstHit(q) # 0 /\ FirstHit(p) < FirstHit(q))
           => CalculateSunlight(p) <= CalculateSunlight(q)

\* C18: at every time of day at which the sun direction is below the horizon,
\* midnight (18000) among them, the sun contribution of the shadow casting
\* computation is the night floor 2 whatever blocks surround the sample.
C18_NightFloorBelowHorizon ==
  (/\ lightingConfig.enableDynamicShadows
   /\ SunDirection(lightingConfig.timeOfDay)[2] < 0)
    => \A p \in SamplePoints : CalculateSunlight(p) = 2

\* the straight segment from p to q runs through the inside of the unit cube of
\* the block at c: some point p + (q - p) * j / 48 lies less than 1/2 from c on
\* every axis. The bounds of the crossing are multiples of 1/24 for the
\* positions explored, so a crossing of any length holds such a point.
PassesThrough(p, q, c) ==
  LET n == 48
      Inside(k, j) ==
        /\ 2 * (n * (p[k] - c[k]) + (q[k] - p[k]) * j) < n
        /\ 2 * (n * (c[k] - p[k]) - (q[k] - p[k]) * j) < n
  IN  \E j \in 1..(n - 1) : \A k \in 1..3 : Inside(k, j)

\* the centre of the block at c lies on the segment strictly between p and q
OnSegment(p, q, c) ==
  LET d == [k \in 1..3 |-> q[k] - p[k]]
      e == [k \in 1..3 |-> c[k] - p[k]]
      dot == d[1] * e[1] + d[2] * e[2] + d[3] * e[3]
  IN  /\ d[1] * e[2] = d[2] * e[1]
      /\ d[1] * e[3] = d[3] * e[1]
      /\ d[2] * e[3] = d[3] * e[2]
      /\ 0 < dot
      /\ dot < SquaredDistance(p, q)

\* the contribution of a source does not grow with the distance of an unblocked
\* sample
FalloffMonotone(source) ==
  \A p \in SamplePoints : \A q \in SamplePoints :
    (/\ ~IsPathBlocked(p, source.position)
     /\ ~IsPathBlocked(q, source.position)
     /\ SquaredDistance(p, source.position) <= SquaredDistance(q, source.position))
      => SourceLight(source, p) >= SourceLight(source, q)

\* C19 as stated: the contribution of a source is non-increasing in the distance
\* of an unoccluded sample, and a sample whose straight path to the source
\* passes through a solid block receives 0 from that source.
C19_FalloffMonotoneAndOccludedDark ==
  \A k \in DOMAIN lightSources :
    /\ FalloffMonotone(lightSources[k])
    /\ \A p \in SamplePoints :
         (\E c \in Sites \ {p, lightSources[k].position} :
            Blocks(c) /\ PassesThrough(p, lightSources[k].position, c))
           => SourceLight(lightSources[k], p) = 0

\* C19 amended: the contribution of a source is non-increasing in the distance of
\* an unoccluded sample, and a sample receives 0 from a source when a solid
\* block is centred on the segment between them.
C19_FalloffMonotoneAndCentredOccluderDark ==
  \A k \in DOMAIN lightSources :
    /\ FalloffMonotone(lightSources[k])
    /\ \A p \in SamplePoints :
         (\E c \in Sites : Blocks(c) /\ OnSegment(p, lightSources[k].position, c))
           => SourceLight(lightSources[k], p) = 0

\* a source within reach of two samples at different distances, one of them
\* behind a solid block centred on its path, the other unblocked and lit
C19_Witness ==
  \E k \in DOMAIN lightSources : \E p \in SamplePoints : \E q \in SamplePoints :
    /\ \E c \in Sites : Blocks(c) /\ OnSegment(p, lightSources[k].position, c)
    /\ LightFalloff(lightSources[k], p) > 0
    /\ SourceLight(lightSources[k], p) = 0
    /\ ~IsPathBlocked(q, lightSources[k].position)
    /\ SquaredDistance(p, lightSources[k].position)
         # SquaredDistance(q, lightSources[k].position)
    /\ SourceLight(lightSources[k], q) > 0

----------------------------------------------------------------------------
(* A ChunkManager built from a given configuration                         *)
(* (src/src/ChunkManager.ts)                                               *)
(*                                                                         *)
(* The chunks of one row (y = z = 0) are followed, and every generation    *)
(* succeeds, so that an updateChunks call runs to its end: it loads, then  *)
(* unloads.                                                                *)

\* the player's chunk coordinates are 0..MaxCenter
MaxCenter == 3

\* partial configurations passed to `new ChunkManager(scene, worldGenerator, config)`
ManagerConfigs ==
  {<<>>, [renderDistance |-> 2], [unloadDistance |-> 1],
   [renderDistance |-> 1, unloadDistance |-> 2],
   [renderDistance |-> 1, unloadDistance |-> 1],
   [renderDistance |-> 2, unloadDistance |-> 1]}

\* loadChunksAroundPlayer: the keys passed to loadChunk
ManagedLoadCandidates(center) ==
  {k \in (center - managerConfig.renderDistance)..(center + managerConfig.renderDistance) :
     /\ ~(DistanceSquared(k, center)
            > managerConfig.renderDistance * managerConfig.renderDistance)
     /\ k \notin managedChunks}

\* unloadDistantChunks over the chunks `loaded`: the keys marked for unloading
ManagedChunksToUnload(loaded, center) ==
  {k \in loaded :
     DistanceSquared(k, center) > managerConfig.unloadDistance * managerConfig.unloadDistance}

\* `new ChunkManager(scene, worldGenerator, config)`
NewChunkManagerStep(config) ==
  /\ managerConfig' = NewChunkManagerConfig(config)
  /\ managedChunks' = {}
  /\ managedCenter' = <<>>
  /\ tickLoaded' = {}
  /\ tickUnloaded' = {}
  /\ UNCHANGED <<chunkBlocks, chunkMesh, worldGenerator, generatedChunk, lightVars>>
  /\ UNCHANGED <<mgrVars, poolVars, flatVars, spawnVars, seedVars, lookVars>>

\* updateChunks(playerPosition) with the player in chunk p
ManagedUpdateChunksStep(p) ==
  /\ IF managedCenter = <<p>>
       THEN /\ tickLoaded' = {}
            /\ tickUnloaded' = {}
            /\ UNCHANGED <<managedChunks, managedCenter>>
       ELSE LET loaded == ManagedLoadCandidates(p)
                unloaded == ManagedChunksToUnload(managedChunks \cup loaded, p)
            IN  /\ managedCenter' = <<p>>
                /\ managedChunks' = (managedChunks \cup loaded) \ unloaded
                /\ tickLoaded' = loaded
                /\ tickUnloaded' = unloaded
  /\ UNCHANGED managerConfig
  /\ UNCHANGED <<chunkBlocks, chunkMesh, worldGenerator, generatedChunk, lightVars>>
  /\ UNCHANGED <<mgrVars, poolVars, flatVars, spawnVars, seedVars, lookVars>>

NextManaged ==
  \/ \E config \in ManagerConfigs : NewChunkManagerStep(config)
  \/ \E p \in 0..MaxCenter : ManagedUpdateChunksStep(p)

SpecManaged == Init /\ [][NextManaged]_vars

\* C20: a manager never holds a configuration with renderDistance >= unloadDistance,
\* such a configuration being rejected when the manager is constructed, and no
\* updateChunks call loads and unloads the same chunk.
C20_InvalidConfigurationRejected ==
  /\ managerConfig.renderDistance < managerConfig.unloadDistance
  /\ tickLoaded \cap tickUnloaded = {}

----------------------------------------------------------------------------
(* The ChunkManager of column chunks (src/unnamed/part_003)                *)
(*                                                                         *)
(* A key is the pair <<chunkX, chunkZ>>. A Chunk object is [key, id]: two  *)
(* objects of one key differ in id. A Chunk's mesh is non-null exactly     *)
(* while it is a child of the scene (unloadChunk removes it and nulls it,  *)
(* regenerateAll removes the old one before adding the new one), so the    *)
(* scene is the set of Chunk objects whose mesh it holds. The manager is   *)
(* constructed with renderDistance 1.                                      *)

\* maxConcurrentLoads of the explored manager (4 in the source)
maxConcurrentLoads == 2

\* the player's chunk is one of FlatCenters; setRenderDistance is given one of
\* FlatRenderDistances
FlatCenters == {<<0, 0>>, <<1, 0>>}
FlatRenderDistances == {0, 1}
\* Chunk objects that may exist at the same time, in all and of one key
MaxFlatChunks == 3
MaxFlatObjects == 2
\* regenerateAll is called while at most MaxRegen chunks are stored
MaxRegen == 2

FlatObject(key, id) == [key |-> key, id |-> id]
FlatResident == DOMAIN flatChunks

\* the offsets <<x, z>> of updateChunks' double loop, in the order it visits them
FlatOffsets ==
  [i \in 1..((2 * flatRenderDistance + 1) * (2 * flatRenderDistance + 1)) |->
     <<((i - 1) \div (2 * flatRenderDistance + 1)) - flatRenderDistance,
       ((i - 1) % (2 * flatRenderDistance + 1)) - flatRenderDistance>>]

FlatKeyAt(center, i) == <<center[1] + FlatOffsets[i][1], center[2] + FlatOffsets[i][2]>>

\* the keys within `distance` of the center on both axes
ChunksToKeepAt(center, distance) ==
  {<<center[1] + x, center[2] + z>> : x \in (0 - distance)..distance,
                                       z \in (0 - distance)..distance}

\* chunksToKeep
ChunksToKeep(center) == {FlatKeyAt(center, i) : i \in DOMAIN FlatOffsets}

\* the loop indices that push an entry to chunksToLoad
ChunksToLoad(center) ==
  {i \in DOMAIN FlatOffsets :
     /\ FlatKeyAt(center, i) \notin FlatResident
     /\ FlatKeyAt(center, i) \notin flatLoading}

\* x * x + z * z: Math.sqrt is monotonic, so distances compare as their squares
FlatDistanceSquared(i) ==
  FlatOffsets[i][1] * FlatOffsets[i][1] + FlatOffsets[i][2] * FlatOffsets[i][2]

\* chunksToLoad left in the order of the loop: the index of entry i
UnsortedPosition(center, i) == Cardinality({j \in ChunksToLoad(center) : j < i})

\* the index of entry i after `chunksToLoad.sort((a, b) => a.distance - b.distance)`,
\* a stable sort: entries at a smaller distance, and earlier ones at the same
SortedPosition(center, i) ==
  Cardinality({j \in ChunksToLoad(center) :
                 \/ FlatDistanceSquared(j) < FlatDistanceSquared(i)
                 \/ FlatDistanceSquared(j) = FlatDistanceSquared(i) /\ j < i})

\* `Math.min(maxConcurrentLoads - loadsInProgress, chunksToLoad.length)`
CanLoad(center) ==
  IF maxConcurrentLoads - Cardinality(flatLoading) <= Cardinality(ChunksToLoad(center))
    THEN maxConcurrentLoads - Cardinality(flatLoading)
    ELSE Cardinality(ChunksToLoad(center))

\* the keys passed to loadChunk by `for (let i = 0; i < canLoad; i++)`
FlatDispatched(center) ==
  {FlatKeyAt(center, i) : i \in {j \in ChunksToLoad(center) :
                                   SortedPosition(center, j) < CanLoad(center)}}

\* the Chunk objects alive: stored, being loaded, in the scene, awaiting a rebuild
FlatObjects == {flatChunks[k] : k \in FlatResident} \cup flatLoads \cup flatScene
                 \cup flatRegen

\* `new Chunk(chunkX, chunkZ)`: an object unlike every other of that key
FreshFlatIds(key) == {id \in 1..MaxFlatObjects : FlatObject(key, id) \notin FlatObjects}
NewFlatChunk(key) == FlatObject(key, Min(FreshFlatIds(key)))

\* updateChunks(playerPosition): loadChunk for the dispatched keys, each up to its
\* `await this.generator.generateChunk(chunk)`, then unloadChunk for every chunk
\* outside chunksToKeep
FlatUpdateChunks(center) ==
  LET dispatched == FlatDispatched(center)
      gone == FlatResident \ ChunksToKeep(center)
  IN  /\ Cardinality(FlatObjects) + Cardinality(dispatched) <= MaxFlatChunks
      /\ \A k \in dispatched : FreshFlatIds(k) # {}
      /\ flatLoading' = flatLoading \cup dispatched
      /\ flatLoads' = flatLoads \cup {NewFlatChunk(k) : k \in dispatched}
      /\ flatScene' = flatScene \ {flatChunks[k] : k \in gone}
      /\ flatChunks' = [k \in FlatResident \ gone |-> flatChunks[k]]
      /\ UNCHANGED <<flatRenderDistance, flatRegen>>
      /\ UNCHANGED <<chunkBlocks, chunkMesh, worldGenerator, generatedChunk, lightVars>>
      /\ UNCHANGED <<mgrVars, poolVars, cfgVars, spawnVars, seedVars, lookVars>>

\* loadChunk after `await this.generator.generateChunk(chunk)`: generateMesh,
\* scene.add, chunks.set, then the finally block
FlatLoadChunkResume(chunk) ==
  /\ chunk \in flatLoads
  /\ flatScene' = flatScene \cup {chunk}
  /\ flatChunks' = [k \in FlatResident \cup {chunk.key} |->
                      IF k = chunk.key THEN chunk ELSE flatChunks[k]]
  /\ flatLoading' = flatLoading \ {chunk.key}
  /\ flatLoads' = flatLoads \ {chunk}
  /\ UNCHANGED <<flatRenderDistance, flatRegen>>
  /\ UNCHANGED <<chunkBlocks, chunkMesh, worldGenerator, generatedChunk, lightVars>>
  /\ UNCHANGED <<mgrVars, poolVars, cfgVars, spawnVars, seedVars, lookVars>>

\* regenerateAll() up to its first await, one call at a time: the chunks are
\* copied to an array. Their order in the Map is not recorded here; they are
\* rebuilt in every order.
RegenerateAll ==
  /\ flatRegen = {}
  /\ FlatResident # {}
  /\ Cardinality(FlatResident) <= MaxRegen
  /\ flatRegen' = {flatChunks[k] : k \in FlatResident}
  /\ UNCHANGED <<flatChunks, flatLoading, flatLoads, flatScene, flatRenderDistance>>
  /\ UNCHANGED <<chunkBlocks, chunkMesh, worldGenerator, generatedChunk, lightVars>>
  /\ UNCHANGED <<mgrVars, poolVars, cfgVars, spawnVars, seedVars, lookVars>>

\* regenerateAll after `await this.generator.generateChunk(chunk)`: the old mesh,
\* if any, is removed from the scene and the new one added
RegenerateAllResume(chunk) ==
  /\ chunk \in flatRegen
  /\ flatScene' = (flatScene \ {chunk}) \cup {chunk}
  /\ flatRegen' = flatRegen \ {chunk}
  /\ UNCHANGED <<flatChunks, flatLoading, flatLoads, flatRenderDistance>>
  /\ UNCHANGED <<chunkBlocks, chunkMesh, worldGenerator, generatedChunk, lightVars>>
  /\ UNCHANGED <<mgrVars, poolVars, cfgVars, spawnVars, seedVars, lookVars>>

\* setRenderDistance(distance)
SetRenderDistance(distance) ==
  /\ flatRenderDistance' = distance
  /\ UNCHANGED <<flatChunks, flatLoading, flatLoads, flatScene, flatRegen>>
  /\ UNCHANGED <<chunkBlocks, chunkMesh, worldGenerator, generatedChunk, lightVars>>
  /\ UNCHANGED <<mgrVars, poolVars, cfgVars, spawnVars, seedVars, lookVars>>

\* dispose(): unloadChunk for every chunk, chunks.clear(), loadingChunks.clear()
FlatDispose ==
  /\ flatScene' = flatScene \ {flatChunks[k] : k \in FlatResident}
  /\ flatChunks' = <<>>
  /\ flatLoading' = {}
  /\ UNCHANGED <<flatLoads, flatRenderDistance, flatRegen>>
  /\ UNCHANGED <<chunkBlocks, chunkMesh, worldGenerator, generatedChunk, lightVars>>
  /\ UNCHANGED <<mgrVars, poolVars, cfgVars, spawnVars, seedVars, lookVars>>

FlatKeys == UNION {ChunksToKeepAt(center, 1) : center \in FlatCenters}
FlatObjectSet == {FlatObject(k, id) : k \in FlatKeys, id \in 1..MaxFlatObjects}

NextFlat ==
  \/ \E center \in FlatCenters : FlatUpdateChunks(center)
  \/ \E chunk \in FlatObjectSet : FlatLoadChunkResume(chunk)
  \/ RegenerateAll
  \/ \E chunk \in FlatObjectSet : RegenerateAllResume(chunk)
  \/ \E distance \in FlatRenderDistances : SetRenderDistance(distance)
  \/ FlatDispose

SpecFlat == Init /\ [][NextFlat]_vars

\* the scene holds the mesh of every stored chunk and no other mesh
FlatSceneIsResidentMeshes == flatScene = {flatChunks[k] : k \in FlatResident}

\* C21: a regeneration covers every chunk stored when it is called, its steps leave
\* the stored keys and the loading set unchanged, and when it finishes the scene
\* holds exactly one mesh per stored chunk and no mesh of a chunk not stored.
C21_RegenerationKeepsSceneResident ==
  [][/\ RegenerateAll => flatRegen' = {flatChunks[k] : k \in FlatResident}
     /\ (RegenerateAll \/ \E chunk \in flatRegen : RegenerateAllResume(chunk))
          => (DOMAIN flatChunks' = FlatResident /\ flatLoading' = flatLoading)
     /\ (flatRegen # {} /\ flatRegen' = {})
          => flatScene' = {flatChunks'[k] : k \in DOMAIN flatChunks'}]_vars

\* the square of the chunk distance between a key and the player's chunk
KeyDistanceSquared(key, center) ==
  (key[1] - center[1]) * (key[1] - center[1]) + (key[2] - center[2]) * (key[2] - center[2])

\* the keys missing around the player's chunk: neither stored nor loading
MissingKeys(center) == {FlatKeyAt(center, i) : i \in ChunksToLoad(center)}

\* C24: in a tick of updateChunks no chunk left undispatched is strictly closer
\* to the player's chunk than a chunk dispatched in that tick.
C24_ClosestDispatchedFirst ==
  [][\A sent \in flatLoading' \ flatLoading : \A center \in FlatCenters :
       FlatUpdateChunks(center) =>
         \A left \in MissingKeys(center) \ (flatLoading' \ flatLoading) :
           ~(KeyDistanceSquared(left, center) < KeyDistanceSquared(sent, center))]_vars

\* after a tick with more missing chunks than capacity: the loads in progress fill
\* the capacity, chunks are still missing, each at least as far as every loading
\* one and one of them strictly farther
C24_Witness ==
  \E center \in FlatCenters :
    /\ Cardinality(flatLoading) = maxConcurrentLoads
    /\ flatLoading = {chunk.key : chunk \in flatLoads}
    /\ FlatResident = {}
    /\ Cardinality(MissingKeys(center)) > maxConcurrentLoads
    /\ \A left \in MissingKeys(center) : \A sent \in flatLoading :
         KeyDistanceSquared(sent, center) <= KeyDistanceSquared(left, center)
    /\ \E left \in MissingKeys(center) : \E sent \in flatLoading :
         KeyDistanceSquared(sent, center) < KeyDistanceSquared(left, center)

\* C27: the generations in progress never exceed maxConcurrentLoads, and
\* loadingChunks holds exactly the keys whose generation is in progress.
C27_LoadsWithinLimitAndMarked ==
  /\ Cardinality(flatLoads) <= maxConcurrentLoads
  /\ flatLoading = {chunk.key : chunk \in flatLoads}

----------------------------------------------------------------------------
(* Player.findSpawnPosition (src/src/Player.ts) over a ChunkManager whose  *)
(* generator is worldGenerator                                             *)
(*                                                                         *)
(* WorldGenerator.generateChunk always resolves, so every forceLoadChunk   *)
(* stores its chunk; no other call of the manager runs meanwhile. A        *)
(* returned position (x + 0.5, y + 1, z + 0.5) is written                  *)
(* [fallback |-> FALSE, x |-> x, y |-> y + 1, z |-> z].                    *)

\* `radius < maxSearchRadius` (50 in the source), `radius += 5`
MaxSearchRadius == 10
RadiusStep == 5
\* the angles 0, PI/8, ... below 2 * PI
SpawnAngles == 1..16
\* the heights at which the blocks of a column are looked at
MaxColumnY == 26

\* <<Math.floor(radius * Math.cos(angle)), Math.floor(radius * Math.sin(angle))>>
\* for the 16 angles, as the doubles give them
SpawnColumns(radius) ==
  CASE radius = 0 -> [a \in SpawnAngles |-> <<0, 0>>]
    [] radius = 5 ->
         <<<<5, 0>>, <<4, 1>>, <<3, 3>>, <<1, 4>>, <<0, 5>>, <<0 - 2, 4>>, <<0 - 4, 3>>,
           <<0 - 5, 1>>, <<0 - 5, 0>>, <<0 - 5, 0 - 2>>, <<0 - 4, 0 - 4>>, <<0 - 2, 0 - 5>>,
           <<0 - 1, 0 - 5>>, <<1, 0 - 5>>, <<3, 0 - 4>>, <<4, 0 - 2>>>>
    [] radius = 10 ->
         <<<<10, 0>>, <<9, 3>>, <<7, 7>>, <<3, 9>>, <<0, 10>>, <<0 - 4, 9>>, <<0 - 8, 7>>,
           <<0 - 10, 3>>, <<0 - 10, 0>>, <<0 - 10, 0 - 4>>, <<0 - 8, 0 - 8>>,
           <<0 - 4, 0 - 10>>, <<0 - 1, 0 - 10>>, <<3, 0 - 10>>, <<7, 0 - 8>>, <<9, 0 - 4>>>>

\* generator configurations of the manager searched
SpawnConfigs ==
  {<<>>, [seaLevel |-> 2], [seaLevel |-> 2, terrainHeight |-> 0],
   [seaLevel |-> 0 - 1, terrainScale |-> 1], [seed |-> 3, seaLevel |-> 2, terrainScale |-> 1]}

\* the block a stored chunk holds at a local cell: what fillChunkWithTerrain put there
StoredBlock(position, localX, localY, localZ) ==
  GetBlockTypeAt(worldGenerator, position[1] * CHUNK_SIZE + localX,
                 position[2] * CHUNK_SIZE + localY, position[3] * CHUNK_SIZE + localZ)

\* `chunkManager.getChunk({x, y, z})?.getBlock(localX, localY, localZ)` with the
\* chunks `stored`: -1 stands for undefined
SpawnGetBlock(stored, x, y, z) ==
  LET position == <<ChunkCoordinate(x), ChunkCoordinate(y), ChunkCoordinate(z)>>
  IN  IF position \in stored
        THEN StoredBlock(position, LocalCoordinate(x), LocalCoordinate(y),
                         LocalCoordinate(z))
        ELSE 0 - 1

\* blockAbove and twoBlocksAbove: `y + n < CHUNK_SIZE * 3 ? ...getBlock(...) : AIR`
SpawnBlockAbove(stored, x, y, z) ==
  IF y < CHUNK_SIZE * 3 THEN SpawnGetBlock(stored, x, y, z) ELSE AIR

\* the test of one iteration of the y loop, the chunk of (x, y, z) being stored
SpawnFound(stored, x, y, z) ==
  /\ SpawnGetBlock(stored, x, y, z) # AIR
  /\ SpawnGetBlock(stored, x, y, z) # WATER
  /\ SpawnBlockAbove(stored, x, y + 1, z) = AIR
  /\ SpawnBlockAbove(stored, x, y + 2, z) = AIR

\* the loop variables after the iteration [radius, angle, y], <<>> past the last
SpawnAdvance(search) ==
  IF search.y > 0 THEN [search EXCEPT !.y = @ - 1]
  ELSE IF search.angle < 16 THEN [search EXCEPT !.angle = @ + 1, !.y = CHUNK_SIZE * 2]
  ELSE IF search.radius + RadiusStep < MaxSearchRadius
         THEN [radius |-> search.radius + RadiusStep, angle |-> 1, y |-> CHUNK_SIZE * 2]
  ELSE <<>>

\* `new THREE.Vector3(0.5, CHUNK_SIZE + 5, 0.5)`
SpawnFallback == [fallback |-> TRUE, x |-> 0, y |-> CHUNK_SIZE + 5, z |-> 0]

\* findSpawnPosition(chunkManager) is called on a new manager with a new generator
FindSpawnPosition(config) ==
  /\ worldGenerator' = NewWorldGenerator(config)
  /\ spawnChunks' = {}
  /\ spawnSearch' = [radius |-> 0, angle |-> 1, y |-> CHUNK_SIZE * 2]
  /\ spawnResult' = <<>>
  /\ UNCHANGED <<chunkBlocks, chunkMesh, generatedChunk, lightVars>>
  /\ UNCHANGED <<mgrVars, poolVars, cfgVars, flatVars, seedVars, lookVars>>

\* one iteration of the y loop: the chunk is force loaded if it is not stored, the
\* blocks are read, and the position is returned or the loops go on; past the
\* last iteration the fallback is returned
SpawnIteration ==
  /\ spawnSearch # <<>>
  /\ LET column == SpawnColumns(spawnSearch.radius)[spawnSearch.angle]
         x == column[1]
         y == spawnSearch.y
         z == column[2]
         stored == spawnChunks
                     \cup {<<ChunkCoordinate(x), ChunkCoordinate(y), ChunkCoordinate(z)>>}
     IN  /\ spawnChunks' = stored
         /\ IF SpawnFound(stored, x, y, z)
              THEN /\ spawnResult' = [fallback |-> FALSE, x |-> x, y |-> y + 1, z |-> z]
                   /\ spawnSearch' = <<>>
              ELSE /\ spawnSearch' = SpawnAdvance(spawnSearch)
                   /\ spawnResult' =
                        IF SpawnAdvance(spawnSearch) = <<>> THEN SpawnFallback ELSE <<>>
  /\ UNCHANGED <<chunkBlocks, chunkMesh, worldGenerator, generatedChunk, lightVars>>
  /\ UNCHANGED <<mgrVars, poolVars, cfgVars, flatVars, seedVars, lookVars>>

NextSpawn ==
  \/ \E config \in SpawnConfigs : FindSpawnPosition(config)
  \/ SpawnIteration

SpecSpawn == Init /\ [][NextSpawn]_vars

\* the generated block at (x, y, z) is neither air nor water and the two blocks
\* above it are air
SpawnableBlock(x, y, z) ==
  /\ GetBlockTypeAt(worldGenerator, x, y, z) # AIR
  /\ GetBlockTypeAt(worldGenerator, x, y, z) # WATER
  /\ GetBlockTypeAt(worldGenerator, x, y + 1, z) = AIR
  /\ GetBlockTypeAt(worldGenerator, x, y + 2, z) = AIR

\* the columns sampled by the search
SampledColumns ==
  {SpawnColumns(radius)[a] :
     radius \in {r \in 0..(MaxSearchRadius - 1) : r % RadiusStep = 0}, a \in SpawnAngles}

\* C22: a position returned that is not the fallback stands on a block that is
\* neither air nor water with two air blocks above it, and the fallback is
\* returned only if no sampled column contains such a block.
C22_SpawnOnLandOrNoneSampled ==
  spawnResult # <<>> =>
    IF spawnResult.fallback
      THEN \A column \in SampledColumns : \A y \in 0..MaxColumnY :
             ~SpawnableBlock(column[1], y, column[2])
      ELSE SpawnableBlock(spawnResult.x, spawnResult.y - 1, spawnResult.z)

----------------------------------------------------------------------------
(* Claims about the worker pool's dispatch *)

\* the worker whose inbox received a message in this step
PostedTo == {w \in WorkerIds : inbox'[w] # inbox[w] /\ Len(inbox'[w]) > Len(inbox[w])}

C25_GenerationErrorRejectsRequest ==
  \A t \in {threw[n] : n \in {m \in 1..Len(threw) :
                                 threw[m].message.type = "GENERATE_CHUNK"}} :
    \/ \E i \in 1..Len(outbox[t.worker]) :
         /\ outbox[t.worker][i].type = "ERROR"
         /\ outbox[t.worker][i].requestId = t.message.requestId
    \/ /\ \E i \in 1..Len(promises) :
            /\ promises[i].requestId = t.message.requestId
            /\ promises[i].state = "rejected"
       /\ t.message.requestId \notin DOMAIN pendingRequests

\* C29: every promise returned by generateChunk is eventually settled (resolved or
\* rejected) when every live worker answers the requests it received, the requests
\* pending at dispose() and those issued after it included.
C29_EveryPromiseSettles ==
  \A i \in 1..MaxRequests :
    (i <= Len(promises)) ~> (i <= Len(promises) /\ promises[i].state # "pending")

----------------------------------------------------------------------------
(* The WorldGenerator with simplex noise (src/src/worldgen.worker.ts,      *)
(* from line 104)                                                          *)
(*                                                                         *)
(* Its constructor creates `random` from the seed and `noise2D` from       *)
(* createNoise2D(random.next), which draws its permutation table from the  *)
(* stream once; noise2D is a closure determined by the seed it was created *)
(* from. setSeed assigns config.seed only. A generator is                  *)
(* [config, noise2D], with noise2D written as that seed. Configurations    *)
(* keep the default terrainScale (0.05) and terrainHeight (10).            *)

NoiseSeeds == {12345, 3, 7}
NoiseSeaLevels == {4, 5, 6}
NoiseConfigs == {<<>>} \cup [seed : NoiseSeeds] \cup [seaLevel : NoiseSeaLevels]
                  \cup [seed : NoiseSeeds, seaLevel : NoiseSeaLevels]
NoisePositions == {0} \X ((0 - 1)..2) \X {0}

\* Math.floor(combinedNoise * terrainHeight) of getTerrainHeight for 0 <= x, z < 16,
\* at index x + 16 * z + 1, for the noise2D created from each seed (IEEE doubles)
CombinedNoiseOf ==
  [seed \in NoiseSeeds |->
     CASE seed = 12345 ->
       <<0, 5, 9, 11, 11, 10, 11, 12, 10, 9, 9, 8, 8, 10, 11, 10,
      0, 4, 6, 7, 8, 8, 9, 10, 9, 9, 8, 7, 7, 10, 11, 10,
      0, 3, 4, 4, 4, 4, 4, 4, 4, 5, 5, 5, 5, 6, 7, 7,
      1, 3, 4, 4, 3, 1, 0 - 1, 0 - 1, 0 - 1, 0, 0, 0, 2, 2, 3, 3,
      2, 3, 4, 4, 2, 0, 0 - 1, 0 - 2, 0 - 2, 0 - 3, 0 - 4, 0 - 5, 0 - 2, 0 - 1, 0, 0,
      2, 3, 2, 2, 0, 0 - 1, 0 - 1, 0 - 1, 0 - 2, 0 - 3, 0 - 5, 0 - 7, 0 - 6, 0 - 5, 0 - 4, 0 - 4,
      3, 4, 2, 0, 0, 0 - 1, 0, 0, 0 - 2, 0 - 3, 0 - 5, 0 - 8, 0 - 9, 0 - 8, 0 - 7, 0 - 7,
      4, 5, 3, 1, 1, 1, 1, 0 - 1, 0 - 3, 0 - 4, 0 - 6, 0 - 9, 0 - 10, 0 - 8, 0 - 7, 0 - 8,
      4, 5, 3, 2, 3, 3, 1, 0 - 2, 0 - 4, 0 - 5, 0 - 6, 0 - 8, 0 - 8, 0 - 6, 0 - 5, 0 - 6,
      4, 4, 3, 2, 3, 2, 1, 0 - 3, 0 - 5, 0 - 5, 0 - 5, 0 - 6, 0 - 6, 0 - 4, 0 - 2, 0 - 2,
      6, 4, 2, 1, 0, 0 - 1, 0 - 1, 0 - 3, 0 - 5, 0 - 5, 0 - 6, 0 - 6, 0 - 4, 0 - 2, 1, 1,
      7, 5, 3, 2, 0, 0 - 2, 0 - 2, 0 - 2, 0 - 3, 0 - 5, 0 - 5, 0 - 4, 0 - 2, 1, 3, 3,
      7, 7, 6, 5, 2, 0 - 1, 0 - 1, 0 - 1, 0 - 3, 0 - 4, 0 - 2, 0, 2, 4, 5, 4,
      7, 8, 9, 7, 3, 0 - 1, 0 - 1, 0 - 1, 0 - 3, 0 - 3, 0, 3, 5, 6, 7, 5,
      6, 7, 9, 7, 2, 0 - 1, 0 - 1, 0 - 1, 0 - 1, 2, 4, 5, 6, 7, 6, 3,
      6, 7, 8, 6, 2, 1, 1, 1, 3, 6, 7, 6, 5, 6, 4, 0>>
       [] seed = 3 ->
       <<0, 0 - 1, 0 - 1, 0 - 2, 0 - 3, 0 - 3, 0 - 3, 0 - 4, 0 - 5, 0 - 6, 0 - 8, 0 - 6, 0 - 5, 0 - 6, 0 - 7, 0 - 5,
      0 - 6, 0 - 6, 0 - 5, 0 - 5, 0 - 5, 0 - 4, 0 - 4, 0 - 6, 0 - 7, 0 - 7, 0 - 6, 0 - 4, 0 - 3, 0 - 5, 0 - 7, 0 - 6,
      0 - 9, 0 - 8, 0 - 8, 0 - 8, 0 - 7, 0 - 5, 0 - 5, 0 - 7, 0 - 8, 0 - 6, 0 - 4, 0 - 2, 0 - 3, 0 - 7, 0 - 9, 0 - 9,
      0 - 10, 0 - 9, 0 - 8, 0 - 7, 0 - 7, 0 - 7, 0 - 7, 0 - 7, 0 - 8, 0 - 6, 0 - 3, 0 - 2, 0 - 4, 0 - 7, 0 - 9, 0 - 10,
      0 - 10, 0 - 9, 0 - 7, 0 - 6, 0 - 7, 0 - 8, 0 - 9, 0 - 9, 0 - 8, 0 - 7, 0 - 4, 0 - 2, 0 - 3, 0 - 5, 0 - 7, 0 - 9,
      0 - 9, 0 - 9, 0 - 8, 0 - 7, 0 - 6, 0 - 7, 0 - 9, 0 - 9, 0 - 8, 0 - 7, 0 - 4, 0 - 3, 0 - 4, 0 - 5, 0 - 6, 0 - 8,
      0 - 8, 0 - 8, 0 - 9, 0 - 8, 0 - 5, 0 - 3, 0 - 5, 0 - 7, 0 - 7, 0 - 6, 0 - 5, 0 - 4, 0 - 4, 0 - 5, 0 - 6, 0 - 7,
      0 - 6, 0 - 5, 0 - 6, 0 - 6, 0 - 3, 0 - 1, 0 - 2, 0 - 3, 0 - 4, 0 - 4, 0 - 5, 0 - 6, 0 - 6, 0 - 6, 0 - 7, 0 - 6,
      0 - 5, 0 - 4, 0 - 3, 0 - 3, 0 - 2, 0 - 1, 0 - 1, 0 - 3, 0 - 3, 0 - 3, 0 - 5, 0 - 8, 0 - 10, 0 - 10, 0 - 8, 0 - 6,
      0 - 5, 0 - 5, 0 - 4, 0 - 2, 0 - 2, 0 - 2, 0 - 3, 0 - 4, 0 - 4, 0 - 4, 0 - 5, 0 - 8, 0 - 11, 0 - 11, 0 - 9, 0 - 6,
      0 - 5, 0 - 5, 0 - 5, 0 - 3, 0 - 3, 0 - 4, 0 - 4, 0 - 3, 0 - 3, 0 - 3, 0 - 4, 0 - 7, 0 - 9, 0 - 9, 0 - 8, 0 - 6,
      0 - 3, 0 - 3, 0 - 4, 0 - 4, 0 - 4, 0 - 5, 0 - 4, 0 - 1, 0, 0, 0, 0 - 3, 0 - 5, 0 - 6, 0 - 6, 0 - 6,
      0 - 2, 0 - 1, 0 - 1, 0 - 2, 0 - 4, 0 - 5, 0 - 3, 0, 2, 3, 4, 3, 1, 0 - 1, 0 - 3, 0 - 4,
      0 - 2, 0 - 1, 1, 1, 0 - 2, 0 - 4, 0 - 2, 0, 1, 4, 7, 7, 6, 4, 2, 0,
      0 - 1, 0, 2, 2, 0 - 1, 0 - 3, 0 - 2, 0, 2, 5, 7, 7, 7, 7, 5, 2,
      2, 2, 4, 3, 1, 0 - 1, 0, 1, 3, 6, 7, 7, 7, 7, 5, 3>>
       [] seed = 7 ->
       <<0, 5, 8, 9, 10, 9, 8, 8, 7, 6, 5, 3, 3, 4, 4, 5,
      0, 5, 8, 10, 10, 8, 8, 9, 9, 7, 6, 4, 4, 4, 5, 5,
      0, 4, 8, 9, 9, 8, 7, 9, 9, 7, 5, 5, 4, 4, 5, 6,
      1, 4, 7, 8, 8, 8, 8, 8, 7, 5, 2, 2, 4, 4, 4, 6,
      2, 4, 5, 6, 8, 11, 10, 8, 7, 4, 1, 1, 4, 6, 6, 6,
      2, 2, 4, 7, 10, 11, 9, 6, 6, 6, 4, 2, 4, 6, 6, 6,
      1, 2, 4, 7, 9, 8, 5, 3, 5, 7, 6, 4, 3, 3, 4, 5,
      2, 3, 6, 8, 7, 5, 3, 3, 5, 8, 8, 6, 4, 3, 3, 3,
      3, 5, 7, 6, 5, 4, 4, 5, 7, 9, 10, 9, 7, 5, 2, 1,
      3, 4, 4, 3, 3, 5, 6, 6, 7, 9, 10, 10, 8, 4, 0, 0 - 3,
      3, 2, 2, 1, 2, 5, 7, 7, 8, 9, 9, 8, 6, 1, 0 - 4, 0 - 5,
      3, 2, 1, 1, 2, 5, 7, 7, 7, 8, 6, 4, 2, 0 - 2, 0 - 7, 0 - 6,
      4, 3, 1, 1, 4, 6, 6, 6, 6, 5, 2, 0 - 2, 0 - 4, 0 - 7, 0 - 10, 0 - 9,
      3, 2, 1, 2, 5, 8, 8, 7, 6, 3, 0 - 1, 0 - 6, 0 - 9, 0 - 11, 0 - 13, 0 - 12,
      2, 2, 2, 4, 7, 9, 8, 7, 5, 2, 0 - 1, 0 - 6, 0 - 10, 0 - 11, 0 - 12, 0 - 12,
      3, 3, 4, 6, 8, 8, 5, 3, 2, 0, 0 - 3, 0 - 7, 0 - 10, 0 - 9, 0 - 8, 0 - 8>>]

\* setSeed(seed): `this.config.seed = seed`
NoiseSetSeed(generator, seed) == [generator EXCEPT !.config.seed = seed]

\* getSeed()
NoiseGetSeed(generator) == generator.config.seed

\* getTerrainHeight(x, z): Math.floor(seaLevel + combinedNoise * terrainHeight)
NoiseTerrainHeight(generator, x, z) ==
  generator.config.seaLevel + CombinedNoiseOf[generator.noise2D][x + 16 * z + 1]

\* generateChunk(position): `new Chunk(position)` filled by fillChunkWithTerrain,
\* whose getBlockTypeAt is that of WorldGenerator.ts
NoiseGenerateChunk(generator, position) ==
  [position |-> position,
   blocks |-> [i \in 1..(CHUNK_SIZE * CHUNK_SIZE * CHUNK_SIZE) |->
                 LET world == WorldOf(position, i) IN
                 IF world[2] = 0
                   THEN BEDROCK
                   ELSE BlockTypeAbove(generator.config, world[2],
                                       NoiseTerrainHeight(generator, world[1],
                                                          world[3]))]]

\* generateChunk, tabulated over the generators and positions explored
NoiseChunkOf ==
  LET table == [generator \in [config : [seed : NoiseSeeds, seaLevel : NoiseSeaLevels,
                                         terrainScale : {20}, terrainHeight : {10}],
                               noise2D : NoiseSeeds],
                position \in NoisePositions |-> NoiseGenerateChunk(generator, position)]
  IN  IF table = <<>> THEN <<>> ELSE table

\* `new WorldGenerator(config)`
NewNoiseGeneratorStep(config) ==
  /\ noiseGenerator' = NewNoiseGenerator(config)
  /\ noiseChunk' = <<>>
  /\ UNCHANGED <<chunkBlocks, chunkMesh, worldGenerator, generatedChunk, lightVars>>
  /\ UNCHANGED <<mgrVars, poolVars, cfgVars, flatVars, spawnVars, lookVars>>

\* setSeed(seed)
NoiseSetSeedStep(seed) ==
  /\ noiseGenerator' = NoiseSetSeed(noiseGenerator, seed)
  /\ noiseChunk' = <<>>
  /\ UNCHANGED <<chunkBlocks, chunkMesh, worldGenerator, generatedChunk, lightVars>>
  /\ UNCHANGED <<mgrVars, poolVars, cfgVars, flatVars, spawnVars, lookVars>>

\* handleUpdateConfig(message): setSeed on the current generator when the config
\* carries a seed, then `worldGenerator = new WorldGenerator(config)`
NoiseUpdateConfigStep(config) ==
  /\ noiseGenerator' = NewNoiseGenerator(config)
  /\ noiseChunk' = <<>>
  /\ UNCHANGED <<chunkBlocks, chunkMesh, worldGenerator, generatedChunk, lightVars>>
  /\ UNCHANGED <<mgrVars, poolVars, cfgVars, flatVars, spawnVars, lookVars>>

\* generateChunk(position)
NoiseGenerateChunkStep(position) ==
  /\ noiseChunk' = <<NoiseChunkOf[noiseGenerator, position]>>
  /\ UNCHANGED noiseGenerator
  /\ UNCHANGED <<chunkBlocks, chunkMesh, worldGenerator, generatedChunk, lightVars>>
  /\ UNCHANGED <<mgrVars, poolVars, cfgVars, flatVars, spawnVars, lookVars>>

NextNoise ==
  \/ \E config \in NoiseConfigs : NewNoiseGeneratorStep(config)
  \/ \E seed \in NoiseSeeds : NoiseSetSeedStep(seed)
  \/ \E config \in NoiseConfigs \ {<<>>} : NoiseUpdateConfigStep(config)
  \/ \E position \in NoisePositions : NoiseGenerateChunkStep(position)

SpecNoise == Init /\ [][NextNoise]_vars

\* C26: after setSeed(s), directly or through an UPDATE_CONFIG message carrying a
\* seed, getSeed() returns s, and every chunk generated afterwards is the chunk a
\* freshly constructed generator with seed s and otherwise the same configuration
\* generates.
C26_SetSeedActsAsFreshGenerator ==
  /\ [][\A seed \in NoiseSeeds :
          NoiseSetSeedStep(seed) => NoiseGetSeed(noiseGenerator') = seed]_vars
  /\ [](noiseChunk # <<>> =>
          noiseChunk[1] = NoiseChunkOf[NewNoiseGenerator([seed |-> noiseGenerator.config.seed,
                                          seaLevel |-> noiseGenerator.config.seaLevel]),
                                       noiseChunk[1].position])

----------------------------------------------------------------------------
(* The chunk lifecycle manager driven by updateChunks alone *)

\* updateChunks calls that overlap freely, and the generations they dispatch
NextTicks ==
  \/ \E p \in Coords : UpdateChunks(p)
  \/ \E s \in TickSlots : UpdateChunksResume(s)
  \/ \E g \in GenSet : GenerationFulfilled(g)
  \/ \E g \in GenSet : GenerationRejected(g)

SpecTicks == Init /\ [][NextTicks]_vars

\* no updateChunks call is suspended, no generation is in flight and none has failed
\* for a chunk that is still missing
Settled ==
  /\ HasViewpoint
  /\ gens = {}
  /\ \A s \in TickSlots : ~ticks[s].active
  /\ failed = {}

\* C28: once the viewpoint has stopped moving and every generation in flight has
\* completed successfully, every chunk within render distance of the viewpoint's
\* chunk is resident, also after updateChunks calls that overlapped. (In a settled
\* state further updateChunks calls for the same chunk return at once, so the state
\* lasts for as long as the viewpoint stays.)
C28_ResidentOnceSettled ==
  Settled => \A k \in Keys : WithinRenderDistance(k, Viewpoint) => k \in Resident

----------------------------------------------------------------------------
(* Block lookups by world coordinate: the chunk and the local cell addressed *)

MaxWorld == 4
WorldCoordinates == (0 - MaxWorld)..MaxWorld

\* Player.getBlockAt: the chunk asked of getChunk and the cell asked of getBlock
PlayerBlockAddress(worldX, worldY, worldZ) ==
  [chunk |-> <<ChunkCoordinate(worldX), ChunkCoordinate(worldY), ChunkCoordinate(worldZ)>>,
   local |-> <<LocalCoordinate(worldX), LocalCoordinate(worldY), LocalCoordinate(worldZ)>>]

\* LightingManager.isBlockSolidAt for a position with integer coordinates:
\* `Math.floor(worldPos.x) - chunkX * CHUNK_SIZE`
LightingBlockAddress(worldX, worldY, worldZ) ==
  LET chunkX == ChunkCoordinate(worldX)
      chunkY == ChunkCoordinate(worldY)
      chunkZ == ChunkCoordinate(worldZ)
  IN  [chunk |-> <<chunkX, chunkY, chunkZ>>,
       local |-> <<worldX - chunkX * CHUNK_SIZE, worldY - chunkY * CHUNK_SIZE,
                   worldZ - chunkZ * CHUNK_SIZE>>]

\* getBlockAt of the ChunkManager of column chunks: the column (chunkX, chunkZ) and
\* the cell (localX, worldY, localZ)
FlatBlockAddress(worldX, worldY, worldZ) ==
  LET chunkX == ChunkCoordinate(worldX)
      chunkZ == ChunkCoordinate(worldZ)
  IN  [chunk |-> <<chunkX, chunkZ>>,
       local |-> <<worldX - chunkX * CHUNK_SIZE, worldY, worldZ - chunkZ * CHUNK_SIZE>>]

\* fillChunkWithTerrain: the world coordinate whose block it stores in cell `local`
\* of the chunk at `position`
StoredWorld(position, local) ==
  <<position[1] * CHUNK_SIZE + local[1], position[2] * CHUNK_SIZE + local[2],
    position[3] * CHUNK_SIZE + local[3]>>

\* generateChunk for a column chunk: worldOffsetX + x and worldOffsetZ + z, with y as
\* it is
FlatStoredWorld(column, local) ==
  <<column[1] * CHUNK_SIZE + local[1], local[2], column[2] * CHUNK_SIZE + local[3]>>

\* one lookup at a world coordinate through each path
PlayerGetBlockAtStep(worldX, worldY, worldZ) ==
  /\ blockLookup = <<>>
  /\ blockLookup' = [path |-> "Player", world |-> <<worldX, worldY, worldZ>>,
                     address |-> PlayerBlockAddress(worldX, worldY, worldZ)]
  /\ UNCHANGED <<chunkBlocks, chunkMesh, worldGenerator, generatedChunk, lightVars>>
  /\ UNCHANGED <<mgrVars, poolVars, cfgVars, flatVars, spawnVars, seedVars>>

IsBlockSolidAtStep(worldX, worldY, worldZ) ==
  /\ blockLookup = <<>>
  /\ blockLookup' = [path |-> "LightingManager", world |-> <<worldX, worldY, worldZ>>,
                     address |-> LightingBlockAddress(worldX, worldY, worldZ)]
  /\ UNCHANGED <<chunkBlocks, chunkMesh, worldGenerator, generatedChunk, lightVars>>
  /\ UNCHANGED <<mgrVars, poolVars, cfgVars, flatVars, spawnVars, seedVars>>

FlatGetBlockAtStep(worldX, worldY, worldZ) ==
  /\ blockLookup = <<>>
  /\ blockLookup' = [path |-> "ChunkManager", world |-> <<worldX, worldY, worldZ>>,
                     address |-> FlatBlockAddress(worldX, worldY, worldZ)]
  /\ UNCHANGED <<chunkBlocks, chunkMesh, worldGenerator, generatedChunk, lightVars>>
  /\ UNCHANGED <<mgrVars, poolVars, cfgVars, flatVars, spawnVars, seedVars>>

NextLookup ==
  \/ \E x, y, z \in WorldCoordinates : PlayerGetBlockAtStep(x, y, z)
  \/ \E x, y, z \in WorldCoordinates : IsBlockSolidAtStep(x, y, z)
  \/ \E x, y, z \in WorldCoordinates : FlatGetBlockAtStep(x, y, z)

SpecLookup == Init /\ [][NextLookup]_vars

\* c * S + l = w and 0 <= l < S
Decomposes(world, chunk, local) ==
  chunk * CHUNK_SIZE + local = world /\ local >= 0 /\ local < CHUNK_SIZE

\* C30: for every integer world coordinate, negative ones included, the chunk
\* coordinate c and the local coordinate l of a lookup satisfy c * S + l = w and
\* 0 <= l < S on every axis the path divides into chunks, and the cell addressed is
\* the one in which the generator stores the block of that world coordinate, on each
\* of the three lookup paths.
C30_LookupAddressesGeneratedCell ==
  blockLookup # <<>> =>
    LET world == blockLookup.world
        chunk == blockLookup.address.chunk
        local == blockLookup.address.local
    IN  IF blockLookup.path = "ChunkManager"
          THEN /\ Decomposes(world[1], chunk[1], local[1])
               /\ Decomposes(world[3], chunk[2], local[3])
               /\ FlatStoredWorld(chunk, local) = world
          ELSE /\ \A axis \in 1..3 : Decomposes(world[axis], chunk[axis], local[axis])
               /\ StoredWorld(chunk, local) = world

\* lookups at a negative coordinate that is no multiple of the chunk size
C30_Witness ==
  /\ blockLookup # <<>>
  /\ blockLookup.path = "Player"
  /\ blockLookup.world = <<0 - 1, 0 - 3, MaxWorld>>
  /\ blockLookup.address.chunk[1] = 0 - 1
  /\ blockLookup.address.local[1] = CHUNK_SIZE - 1

====
